---- MODULE Spec2Model ----
(***************************************************************************)
(* A model of the entity-consistency layer of lrcat-go: the catalog's      *)
(* tables (SQLite, no foreign keys, id_local INTEGER PRIMARY KEY) and the  *)
(* operations of Catalog that keep them coherent.                          *)
(*                                                                         *)
(* Text is modelled as a sequence of one-character strings, so that        *)
(* prefix/suffix tests, splitting, trimming and case folding are computed  *)
(* and not assumed.  A nullable column is a record [valid, v], as Go's     *)
(* sql.NullInt64 reads it.  The id_global columns (random UUIDs) and the   *)
(* timestamps carry no logic and are left out of the rows.                 *)
(***************************************************************************)
EXTENDS Integers, Sequences, FiniteSets, TLC

VARIABLES
    goos,          \* runtime.GOOS of the build
    rootFolders,   \* AgLibraryRootFolder
    folders,       \* AgLibraryFolder
    files,         \* AgLibraryFile
    images,        \* Adobe_images
    keywords,      \* AgLibraryKeyword
    kwImages,      \* AgLibraryKeywordImage
    collections,   \* AgLibraryCollection
    collImages,    \* AgLibraryCollectionImage
    metadata,      \* Adobe_AdditionalMetadata
    imports,       \* AgLibraryImport
    importImages,  \* AgLibraryImportImage
    calls,         \* per goroutine, how far its AddImageToCollection has come
    lastCall,      \* history: the last call made, its arguments and its result
    addOrder,      \* history: per collection id, the images in the order the calls added them
    firstGot       \* history: the first result of each get-or-create lookup key

vars == <<goos, rootFolders, folders, files, images, keywords, kwImages,
          collections, collImages, metadata, imports, importImages, calls,
          lastCall, addOrder, firstGot>>

\* ------------------------------------------------------------------ bounds
MaxRoots == 1
MaxNestedRoots == 2
MaxWriters == 2
MaxFolders == 2
MaxImages == 2
MaxKeywords == 3
MaxCollections == 2
MaxAlbums == 1
MaxMemberships == 3
MaxTags == 1
MaxImports == 2
MaxBatch == 2
MaxXmpLen == 3

\* ------------------------------------------------------------- SQL values
Null == [valid |-> FALSE, v |-> 0]
Some(x) == [valid |-> TRUE, v |-> x]

MaxOf(S) == CHOOSE m \in S : \A x \in S : x <= m
MinOf(S) == CHOOSE m \in S : \A x \in S : m <= x

\* The rowid SQLite gives an INSERT into a table declared without AUTOINCREMENT:
\* one more than the largest rowid present, 1 for an empty table.
NextId(table) == IF table = {} THEN 1 ELSE MaxOf({r.id : r \in table}) + 1

\* The row a QueryRow without ORDER BY scans first: SQLite visits the matching
\* rows in rowid order.
FirstRow(rows) == CHOOSE r \in rows : \A q \in rows : r.id <= q.id

\* ------------------------------------------------------------------- text
EmptyStr == <<>>
Slash == "/"
Backslash == "\\"

HasPrefix(s, p) == Len(p) <= Len(s) /\ SubSeq(s, 1, Len(p)) = p
HasSuffix(s, p) == Len(p) <= Len(s) /\ SubSeq(s, Len(s) - Len(p) + 1, Len(s)) = p
TrimPrefix(s, p) == IF HasPrefix(s, p) THEN SubSeq(s, Len(p) + 1, Len(s)) ELSE s
TrimSuffix(s, p) == IF HasSuffix(s, p) THEN SubSeq(s, 1, Len(s) - Len(p)) ELSE s

\* fmt.Sprintf("%d", id) for the identities the model reaches.
FormatId(id) == <<ToString(id)>>

\* The byte values of the characters the inputs are written with: SQLite's
\* BINARY collation and Go's string comparison order text by them.
CharCode ==
    [c \in {" ", ".", "/", "A", "B", "\\", "a", "b", "c", "j", "x", "y", "z"} |->
        CASE c = " " -> 32 [] c = "." -> 46 [] c = "/" -> 47
          [] c = "A" -> 65 [] c = "B" -> 66 [] c = "\\" -> 92
          [] c = "a" -> 97 [] c = "b" -> 98 [] c = "c" -> 99
          [] c = "j" -> 106 [] c = "x" -> 120 [] c = "y" -> 121 [] c = "z" -> 122]

RECURSIVE TextLessEq(_, _)
TextLessEq(s, t) ==
    IF s = <<>> THEN TRUE
    ELSE IF t = <<>> THEN FALSE
    ELSE IF Head(s) = Head(t) THEN TextLessEq(Tail(s), Tail(t))
    ELSE CharCode[Head(s)] < CharCode[Head(t)]

\* strings.ToLower, character by character.
LowerChar(c) == CASE c = "A" -> "a" [] c = "B" -> "b" [] OTHER -> c
ToLower(s) == [i \in 1..Len(s) |-> LowerChar(s[i])]

\* strings.TrimSpace.
RECURSIVE TrimLeft(_)
TrimLeft(s) == IF s # <<>> /\ Head(s) = " " THEN TrimLeft(Tail(s)) ELSE s
RECURSIVE TrimRight(_)
TrimRight(s) ==
    IF s # <<>> /\ s[Len(s)] = " " THEN TrimRight(SubSeq(s, 1, Len(s) - 1)) ELSE s
TrimSpace(s) == TrimRight(TrimLeft(s))

\* strings.Split(s, sep) for a one-character separator: always at least one part.
RECURSIVE SplitFrom(_, _, _)
SplitFrom(s, sep, cur) ==
    IF s = <<>> THEN <<cur>>
    ELSE IF Head(s) = sep THEN <<cur>> \o SplitFrom(Tail(s), sep, <<>>)
    ELSE SplitFrom(Tail(s), sep, Append(cur, Head(s)))
Split(s, sep) == SplitFrom(s, sep, <<>>)

RECURSIVE Join(_, _)
Join(parts, sep) ==
    IF parts = <<>> THEN <<>>
    ELSE IF Len(parts) = 1 THEN parts[1]
    ELSE parts[1] \o <<sep>> \o Join(Tail(parts), sep)

\* strings.ReplaceAll(s, old, new) for one-character old and new.
ReplaceAll(s, old, new) == [i \in 1..Len(s) |-> IF s[i] = old THEN new ELSE s[i]]

LastIndex(s, c) ==
    IF \E i \in 1..Len(s) : s[i] = c THEN MaxOf({i \in 1..Len(s) : s[i] = c}) ELSE 0

\* ---------------------------------------------------------- path/filepath
\* The functions of path/filepath with "/" as the separator.  On a Windows
\* build they put "\" for "/" in what they return; every caller passes their
\* result through normalizePath again, which puts "/" back.
RECURSIVE CleanStack(_, _, _)
CleanStack(segs, rooted, stack) ==
    IF segs = <<>> THEN stack
    ELSE LET seg == Head(segs)
             rest == Tail(segs)
         IN IF seg = <<>> \/ seg = <<".">> THEN CleanStack(rest, rooted, stack)
            ELSE IF seg = <<".", ".">>
                 THEN IF stack # <<>> /\ stack[Len(stack)] # <<".", ".">>
                      THEN CleanStack(rest, rooted, SubSeq(stack, 1, Len(stack) - 1))
                      ELSE IF rooted THEN CleanStack(rest, rooted, stack)
                      ELSE CleanStack(rest, rooted, Append(stack, seg))
            ELSE CleanStack(rest, rooted, Append(stack, seg))

Clean(path) ==
    LET rooted == HasPrefix(path, <<Slash>>)
        out == (IF rooted THEN <<Slash>> ELSE <<>>)
                   \o Join(CleanStack(Split(path, Slash), rooted, <<>>), Slash)
    IN IF out = <<>> THEN <<".">> ELSE out

\* filepath.Dir of a path written with "/" and without a volume name, which is
\* all the callers give it: the cleaned path up to the last "/"; a Windows
\* build writes the result with its own separator.
Dir(path) ==
    LET dir == Clean(SubSeq(path, 1, LastIndex(path, Slash)))
    IN IF goos = "windows" THEN ReplaceAll(dir, Slash, Backslash) ELSE dir

RECURSIVE StripTrailingSlashes(_)
StripTrailingSlashes(s) ==
    IF s # <<>> /\ s[Len(s)] = Slash
    THEN StripTrailingSlashes(SubSeq(s, 1, Len(s) - 1)) ELSE s

Base(path) ==
    IF path = <<>> THEN <<".">>
    ELSE LET p == StripTrailingSlashes(path)
         IN IF p = <<>> THEN <<Slash>>
            ELSE SubSeq(p, LastIndex(p, Slash) + 1, Len(p))

Ext(path) ==
    LET dot == LastIndex(path, ".")
    IN IF dot > LastIndex(path, Slash) THEN SubSeq(path, dot, Len(path)) ELSE <<>>

\* normalizePath doing nothing on any build (a variant for comparison).
normalizePathAsWritten(path) == path

\* normalizePath converts Windows backslashes to forward slashes
normalizePath(path) ==
    IF goos = "windows" THEN ReplaceAll(path, Backslash, Slash) ELSE path

\* A trailing separator is appended unless the text already ends with one.
WithTrailingSlash(path) == IF HasSuffix(path, <<Slash>>) THEN path ELSE path \o <<Slash>>

\* ------------------------------------------------------- folders (folder.go)
\* What a call answers: err is "" on success.
Ok == ""

\* AddRootFolder: the path is normalized and given a trailing separator, the
\* name is its last element; absolutePath is UNIQUE in the schema.
addRootFolder(roots, absolutePath0) ==
    LET absolutePath == WithTrailingSlash(normalizePath(absolutePath0))
        name == Base(TrimSuffix(absolutePath, <<Slash>>))
        id == NextId(roots)
        row == [id |-> id, absolutePath |-> absolutePath, name |-> name]
    IN IF \E r \in roots : r.absolutePath = absolutePath
       THEN [err |-> "failed to add root folder", rootFolders |-> roots, root |-> Null]
       ELSE [err |-> Ok, rootFolders |-> roots \cup {row}, root |-> Some(row)]

\* A variant of normalizeRelPath that keeps the path as written, without the
\* trailing separator (mutation for C6).
normalizeRelPathAsWritten(pathFromRoot0) == normalizePath(pathFromRoot0)

\* The pathFromRoot AddFolder and GetOrCreateFolder store and look up.
normalizeRelPath(pathFromRoot0) ==
    LET p == normalizePath(pathFromRoot0)
    IN IF p # EmptyStr /\ ~HasSuffix(p, <<Slash>>) THEN p \o <<Slash>> ELSE p

\* AddFolder: an unconditional INSERT; AgLibraryFolder has no constraint beyond
\* its primary key, and the root folder id is not looked up.
addFolder(flds, rootFolderID, pathFromRoot0) ==
    LET row == [id |-> NextId(flds), rootFolder |-> rootFolderID,
                pathFromRoot |-> normalizeRelPath(pathFromRoot0), parentId |-> Null]
    IN [err |-> Ok, folders |-> flds \cup {row}, folder |-> row]

\* A variant of GetOrCreateFolder that skips the lookup (mutation for C4).
getOrCreateFolderAlwaysAdd(flds, rootFolderID, pathFromRoot0) ==
    addFolder(flds, rootFolderID, pathFromRoot0)

\* GetOrCreateFolder: the first row of that root and path, else AddFolder.
getOrCreateFolder(flds, rootFolderID, pathFromRoot0) ==
    LET pathFromRoot == normalizeRelPath(pathFromRoot0)
        found == {f \in flds : f.rootFolder = rootFolderID /\ f.pathFromRoot = pathFromRoot}
    IN IF found # {}
       THEN [err |-> Ok, folders |-> flds, folder |-> FirstRow(found)]
       ELSE addFolder(flds, rootFolderID, pathFromRoot)

\* ListRootFolders in the order of the ids (a variant for comparison).
RECURSIVE ListRootFoldersById(_)
ListRootFoldersById(roots) ==
    IF roots = {} THEN {<<>>}
    ELSE LET r == CHOOSE x \in roots : \A y \in roots : x.id <= y.id
         IN {<<r>> \o rest : rest \in ListRootFoldersById(roots \ {r})}

\* ListRootFolders: ORDER BY name.  Rows of equal name come in an order SQL
\* leaves open, so every order sorted by name is a possible answer.
RECURSIVE SortedByName(_)
SortedByName(rows) ==
    IF rows = {} THEN {<<>>}
    ELSE UNION {{<<r>> \o rest : rest \in SortedByName(rows \ {r})} :
                r \in {x \in rows : \A y \in rows : TextLessEq(x.name, y.name)}}
ListRootFolders(roots) == SortedByName(roots)

\* ensureFolderPath, given the answer of ListRootFolders: the first root folder
\* in it whose path is a prefix of the directory, else a new root folder at the
\* directory; then the folder at the remainder.
ensureFolderPath(roots, flds, rootList, dirPath0) ==
    LET dirPath == WithTrailingSlash(normalizePath(dirPath0))
        hits == {i \in 1..Len(rootList) : HasPrefix(dirPath, rootList[i].absolutePath)}
    IN IF hits # {}
       THEN LET rf == rootList[MinOf(hits)]
                got == getOrCreateFolder(flds, rf.id, TrimPrefix(dirPath, rf.absolutePath))
            IN [err |-> got.err, rootFolders |-> roots, folders |-> got.folders,
                root |-> rf, folder |-> got.folder]
       ELSE LET added == addRootFolder(roots, dirPath)
            IN IF added.err # Ok
               THEN [err |-> added.err, rootFolders |-> roots, folders |-> flds,
                     root |-> Null, folder |-> Null]
               ELSE LET got == getOrCreateFolder(flds, added.root.v.id, EmptyStr)
                    IN [err |-> got.err, rootFolders |-> added.rootFolders,
                        folders |-> got.folders, root |-> added.root.v,
                        folder |-> got.folder]

\* addFile: the AgLibraryFile row of a file name in a folder.
addFile(fls, folderID, baseName, extension, originalFilename) ==
    LET row == [id |-> NextId(fls), folder |-> folderID, baseName |-> baseName,
                extension |-> extension, originalFilename |-> originalFilename]
    IN [files |-> fls \cup {row}, file |-> row]

\* ImageExists: the files whose root folder path, folder path, base name, "."
\* and extension make up the normalized path are counted; when there is none,
\* the files whose original filename is the last element of the path.
imageExists(roots, flds, fls, filePath) ==
    LET absPath == normalizePath(filePath)
        filename == Base(absPath)
        joined == {<<f, fo, rf>> \in fls \X flds \X roots :
                      /\ f.folder = fo.id
                      /\ fo.rootFolder = rf.id
                      /\ rf.absolutePath \o fo.pathFromRoot \o f.baseName \o <<".">>
                            \o f.extension = absPath}
        named == {f \in fls : f.originalFilename = filename}
        count == IF Cardinality(joined) = 0 THEN Cardinality(named)
                 ELSE Cardinality(joined)
    IN count > 0

\* An *int of ImageInput or Image is nil (Null) or points to a value (Some).
\* NoOptions: the optional fields of an input that sets none of them.
NoOptions == [Rating |-> Null, Width |-> Null, Height |-> Null, Orientation |-> Null]

\* An optional field bound with nil for 0 as well (a variant for comparison).
bindOptionalZeroAsNull(p) == IF p.valid /\ p.v # 0 THEN Some(p.v) ELSE Null

\* The interface{} bound to the INSERT for an optional field: nil, which is
\* stored as NULL, for a nil pointer; else the value pointed to.
bindOptional(p) == IF p.valid THEN Some(p.v) ELSE Null

\* The *int made of a column scanned into a sql.NullInt64.
scanOptional(column) == IF column.valid THEN Some(column.v) ELSE Null

\* addImageRecord: the Adobe_images row of a file.
addImageRecord(imgs, fileID, input) ==
    LET row == [id |-> NextId(imgs), rootFile |-> fileID,
                rating |-> bindOptional(input.Rating),
                fileWidth |-> bindOptional(input.Width),
                fileHeight |-> bindOptional(input.Height),
                orientation |-> bindOptional(input.Orientation)]
    IN [images |-> imgs \cup {row}, image |-> row]

\* GetImage: the row of the id, its optional columns as pointers.
getImage(imgs, id) ==
    LET found == {row \in imgs : row.id = id}
    IN IF found = {} THEN [err |-> "image not found", image |-> NoOptions]
       ELSE LET row == FirstRow(found)
            IN [err |-> Ok,
                image |-> [Rating |-> scanOptional(row.rating),
                           Width |-> scanOptional(row.fileWidth),
                           Height |-> scanOptional(row.fileHeight),
                           Orientation |-> scanOptional(row.orientation)]]

\* addAdditionalMetadata: the metadata placeholder of an image, xmp ''.
addAdditionalMetadata(meta, imageID) ==
    meta \cup {[id |-> NextId(meta), image |-> imageID, xmp |-> EmptyStr]}

\* --------------------------------------------------------- the XMP blob
\* A []byte: nil, or a sequence of bytes (0..255).  A string is its bytes.
NilBytes == [nil |-> TRUE, bytes |-> <<>>]
Bytes(b) == [nil |-> FALSE, bytes |-> b]

HeaderLen == 4
AdlerMod == 65521

\* binary.BigEndian of a uint32.
BigEndian32(n) ==
    <<(n \div 16777216) % 256, (n \div 65536) % 256, (n \div 256) % 256, n % 256>>

\* adler32.Checksum, as the pair of its two sums.
RECURSIVE adlerSums(_, _, _)
adlerSums(b, a0, b0) ==
    IF b = <<>> THEN <<a0, b0>>
    ELSE LET a1 == (a0 + Head(b)) % AdlerMod
         IN adlerSums(Tail(b), a1, (b0 + a1) % AdlerMod)
adler32(b) == LET sums == adlerSums(b, 1, 0) IN sums[2] * 65536 + sums[1]

\* The stream of zlib.NewWriter, Write and Close (RFC 1950): the header 78 9C,
\* the deflate data, the Adler-32 of the text.  The deflate data is one final
\* stored block (RFC 1951, 3.2.4): the block byte, LEN and its complement in
\* little-endian order, the bytes.
deflateStored(b) ==
    <<1, Len(b) % 256, Len(b) \div 256,
      255 - (Len(b) % 256), 255 - (Len(b) \div 256)>> \o b
zlibWrite(b) == <<120, 156>> \o deflateStored(b) \o BigEndian32(adler32(b))

\* flate's reader on the blocks of a stream: the text, what follows the last
\* block, and the error.  Stored blocks are read; the reserved block type is
\* corrupt input; no stream of this model holds a Huffman-coded block.
RECURSIVE inflate(_, _)
inflate(b, out) ==
    IF b = <<>> THEN [err |-> "unexpected EOF", text |-> out, rest |-> <<>>]
    ELSE LET final == Head(b) % 2 = 1
             btype == (Head(b) \div 2) % 4
         IN CASE btype = 3 ->
                   [err |-> "flate: corrupt input", text |-> out, rest |-> <<>>]
              [] btype = 0 ->
                   IF Len(b) < 5
                   THEN [err |-> "unexpected EOF", text |-> out, rest |-> <<>>]
                   ELSE LET n == b[2] + 256 * b[3]
                            nn == b[4] + 256 * b[5]
                        IN IF nn # 65535 - n
                           THEN [err |-> "flate: corrupt input", text |-> out,
                                 rest |-> <<>>]
                           ELSE IF Len(b) < 5 + n
                           THEN [err |-> "unexpected EOF", text |-> out,
                                 rest |-> <<>>]
                           ELSE LET text == out \o SubSeq(b, 6, 5 + n)
                                    rest == SubSeq(b, 6 + n, Len(b))
                                IN IF final
                                   THEN [err |-> Ok, text |-> text, rest |-> rest]
                                   ELSE inflate(rest, text)

\* zlib.NewReader: the two header bytes are read and checked.
zlibNewReader(b) ==
    IF Len(b) < 2 THEN "unexpected EOF"
    ELSE IF \/ b[1] % 16 # 8
            \/ b[1] \div 16 > 7
            \/ (b[1] * 256 + b[2]) % 31 # 0
         THEN "zlib: invalid header"
    ELSE IF (b[2] \div 32) % 2 = 1 THEN "zlib: invalid dictionary"
    ELSE Ok

\* io.ReadAll of a reader that does not compare the checksum (a variant for
\* comparison).
zlibReadAllUnchecked(b) ==
    LET res == inflate(SubSeq(b, 3, Len(b)), <<>>)
    IN IF res.err # Ok THEN [err |-> res.err, text |-> <<>>]
       ELSE IF Len(res.rest) < 4 THEN [err |-> "unexpected EOF", text |-> <<>>]
       ELSE [err |-> Ok, text |-> res.text]

\* io.ReadAll of the zlib reader: the blocks, then the checksum.
zlibReadAll(b) ==
    LET res == inflate(SubSeq(b, 3, Len(b)), <<>>)
    IN IF res.err # Ok THEN [err |-> res.err, text |-> <<>>]
       ELSE IF Len(res.rest) < 4 THEN [err |-> "unexpected EOF", text |-> <<>>]
       ELSE IF SubSeq(res.rest, 1, 4) # BigEndian32(adler32(res.text))
       THEN [err |-> "zlib: invalid checksum", text |-> <<>>]
       ELSE [err |-> Ok, text |-> res.text]

\* CompressXMP without its length header (a variant for comparison).
CompressXMPNoHeader(xmp) ==
    IF xmp = <<>> THEN [data |-> NilBytes, err |-> Ok]
    ELSE [data |-> Bytes(zlibWrite(xmp)), err |-> Ok]

\* CompressXMP: nil for the empty text; else the length of the text as four
\* big-endian bytes, then the zlib stream of the text.
CompressXMP(xmp) ==
    IF xmp = <<>> THEN [data |-> NilBytes, err |-> Ok]
    ELSE [data |-> Bytes(BigEndian32(Len(xmp)) \o zlibWrite(xmp)), err |-> Ok]

\* DecompressXMP that believes the length in the header and refuses a text of
\* another length (a variant for comparison).
DecompressXMPTrustHeader(data) ==
    IF Len(data.bytes) < HeaderLen THEN [text |-> <<>>, err |-> Ok]
    ELSE LET stream == SubSeq(data.bytes, HeaderLen + 1, Len(data.bytes))
             opened == zlibNewReader(stream)
         IN IF opened # Ok
            THEN [text |-> <<>>, err |-> "failed to create zlib reader"]
            ELSE LET res == zlibReadAll(stream)
                 IN IF res.err # Ok
                    THEN [text |-> <<>>, err |-> "failed to decompress XMP"]
                    ELSE IF BigEndian32(Len(res.text)) # SubSeq(data.bytes, 1, HeaderLen)
                    THEN [text |-> <<>>, err |-> "failed to decompress XMP"]
                    ELSE [text |-> res.text, err |-> Ok]

\* DecompressXMP without its test of the length (a variant for comparison).
DecompressXMPAlwaysInflate(data) ==
    LET stream == SubSeq(data.bytes, HeaderLen + 1, Len(data.bytes))
        opened == zlibNewReader(stream)
    IN IF opened # Ok
       THEN [text |-> <<>>, err |-> "failed to create zlib reader"]
       ELSE LET res == zlibReadAll(stream)
            IN IF res.err # Ok
               THEN [text |-> <<>>, err |-> "failed to decompress XMP"]
               ELSE [text |-> res.text, err |-> Ok]

\* DecompressXMP: the empty text for fewer than four bytes; else the four bytes
\* are skipped and the rest is read as a zlib stream.
DecompressXMP(data) ==
    IF Len(data.bytes) < HeaderLen THEN [text |-> <<>>, err |-> Ok]
    ELSE LET stream == SubSeq(data.bytes, HeaderLen + 1, Len(data.bytes))
             opened == zlibNewReader(stream)
         IN IF opened # Ok
            THEN [text |-> <<>>, err |-> "failed to create zlib reader"]
            ELSE LET res == zlibReadAll(stream)
                 IN IF res.err # Ok
                    THEN [text |-> <<>>, err |-> "failed to decompress XMP"]
                    ELSE [text |-> res.text, err |-> Ok]

\* A variant of SetXMP that inserts a row for an image that has none (a variant
\* for comparison).
setXMPUpsert(meta, imageID, xmp) ==
    LET compressed == CompressXMP(xmp)
        reached == {row \in meta : row.image = imageID}
    IN IF compressed.err # Ok THEN [err |-> "failed to compress XMP", metadata |-> meta]
       ELSE IF compressed.data.nil
       THEN [err |-> "failed to update XMP", metadata |-> meta]
       ELSE IF reached = {}
       THEN [err |-> Ok,
             metadata |-> meta \cup {[id |-> NextId(meta), image |-> imageID,
                                      xmp |-> compressed.data.bytes]}]
       ELSE [err |-> Ok,
             metadata |-> (meta \ reached) \cup
                          {[row EXCEPT !.xmp = compressed.data.bytes] : row \in reached}]

\* SetXMP: the blob of CompressXMP is bound to the UPDATE of the rows of the
\* image.  The driver binds a nil []byte as NULL, which the NOT NULL column xmp
\* refuses for every row the UPDATE reaches.
setXMP(meta, imageID, xmp) ==
    LET compressed == CompressXMP(xmp)
        reached == {row \in meta : row.image = imageID}
    IN IF compressed.err # Ok THEN [err |-> "failed to compress XMP", metadata |-> meta]
       ELSE IF compressed.data.nil /\ reached # {}
       THEN [err |-> "failed to update XMP", metadata |-> meta]
       ELSE [err |-> Ok,
             metadata |-> (meta \ reached) \cup
                          {[row EXCEPT !.xmp = compressed.data.bytes] : row \in reached}]

\* GetXMP: the blob of the first row of the image; the empty text for an empty
\* blob, else what DecompressXMP makes of it.
getXMP(meta, imageID) ==
    LET found == {row \in meta : row.image = imageID}
    IN IF found = {} THEN [text |-> <<>>, err |-> "failed to get XMP"]
       ELSE LET data == FirstRow(found).xmp
            IN IF Len(data) = 0 THEN [text |-> <<>>, err |-> Ok]
               ELSE DecompressXMP(Bytes(data))

\* createImportSession: the AgLibraryImport row of a call of AddImages.
createImportSession(imps, imageCount) ==
    LET row == [id |-> NextId(imps), imageCount |-> imageCount]
    IN [imports |-> imps \cup {row}, session |-> row]

\* linkImageToImport: the AgLibraryImportImage row of an image and a session.
linkImageToImport(links, imageID, importID) ==
    links \cup {[id |-> NextId(links), image |-> imageID, import |-> importID]}

\* The loop of AddImages over its inputs, addImageInTx and linkImageToImport for
\* each.  st carries the tables as the loop sees them; failAt counts the inputs
\* down to the one whose INSERT INTO AgLibraryFile fails (0: none fails).
\* ensureFolderPath runs on c.db, every answer of ListRootFolders is followed,
\* and what it writes is written at once; the other statements run on tx.  The
\* answers are the states the loop can end in, err saying how.
RECURSIVE addImagesLoop(_, _, _, _)
addImagesLoop(inputs, st, importID, failAt) ==
    IF inputs = <<>> THEN {[st EXCEPT !.err = Ok]}
    ELSE UNION {
        LET absPath == normalizePath(Head(inputs))
            filename == Base(absPath)
            ext == TrimPrefix(Ext(filename), <<".">>)
            baseName == TrimSuffix(filename, Ext(filename))
            ens == ensureFolderPath(st.rootFolders, st.folders, rootList, Dir(absPath))
            resolved == [st EXCEPT !.rootFolders = ens.rootFolders, !.folders = ens.folders]
        IN IF ens.err # Ok THEN {[resolved EXCEPT !.err = "failed to add image"]}
           ELSE IF failAt = 1 THEN {[resolved EXCEPT !.err = "failed to add image"]}
           ELSE LET file == addFile(st.files, ens.folder.id, baseName, ext, filename)
                    image == addImageRecord(st.images, file.file.id, NoOptions)
                IN addImagesLoop(
                       Tail(inputs),
                       [resolved EXCEPT
                           !.files = file.files,
                           !.images = image.images,
                           !.metadata = addAdditionalMetadata(st.metadata, image.image.id),
                           !.importImages =
                               linkImageToImport(st.importImages, image.image.id, importID)],
                       importID,
                       IF failAt = 0 THEN 0 ELSE failAt - 1)
        : rootList \in ListRootFolders(st.rootFolders)}

\* AddImages: nothing for no input; else a transaction with the import session
\* and the loop, committed when the loop ends without error and rolled back
\* otherwise.  The rollback undoes the statements of tx, and only those.
addImages(st, inputs, failAt) ==
    IF Len(inputs) = 0 THEN {[st EXCEPT !.err = "no images to add"]}
    ELSE LET session == createImportSession(st.imports, Len(inputs))
             begun == [st EXCEPT !.imports = session.imports]
         IN {IF out.err = Ok THEN out
             ELSE [st EXCEPT !.err = out.err, !.rootFolders = out.rootFolders,
                             !.folders = out.folders] :
                out \in addImagesLoop(inputs, begun, session.session.id, failAt)}

\* ------------------------------------------------ hierarchy (genealogy)
\* A variant of stampGenealogy that leaves the separator out (mutation for C8).
stampGenealogyNoSeparator(genealogy, id) == genealogy \o FormatId(id)

\* The genealogy stamped by the second statement of AddKeyword and of
\* AddCollection: the parent's, a "/" when that is not empty, the new id.
stampGenealogy(genealogy, id) ==
    (IF genealogy # EmptyStr THEN genealogy \o <<Slash>> ELSE genealogy) \o FormatId(id)

\* UPDATE <table> SET genealogy = ? WHERE id_local = ?
updateGenealogy(table, id, newGenealogy) ==
    {IF r.id = id THEN [r EXCEPT !.genealogy = newGenealogy] ELSE r : r \in table}

\* A variant of the lookup whose error is dropped, the caller going on with a
\* blank row (mutation for C10).
getByIdOrBlank(table, id) ==
    IF \E r \in table : r.id = id
    THEN [err |-> Ok, row |-> CHOOSE r \in table : r.id = id]
    ELSE [err |-> Ok, row |-> [id |-> 0, genealogy |-> EmptyStr]]

\* GetKeyword / GetCollection: the row of an id, or a not-found error.
getById(table, id) ==
    IF \E r \in table : r.id = id
    THEN [err |-> Ok, row |-> CHOOSE r \in table : r.id = id]
    ELSE [err |-> "not found", row |-> Null]

\* ------------------------------------------------- keywords (keyword.go)
\* AddKeyword: look the parent up, insert with the parent's genealogy, then
\* stamp the genealogy with the new id.
addKeyword(kws, name, parentID) ==
    LET parent == IF parentID.valid THEN getById(kws, parentID.v)
                  ELSE [err |-> Ok, row |-> Null]
    IN IF parent.err # Ok
       THEN [err |-> "parent keyword not found", keywords |-> kws, kw |-> Null]
       ELSE LET genealogy == IF parentID.valid THEN parent.row.genealogy ELSE EmptyStr
                id == NextId(kws)
                inserted == kws \cup {[id |-> id, name |-> name, lc_name |-> ToLower(name),
                                       parent |-> parentID, genealogy |-> genealogy]}
                newGenealogy == stampGenealogy(genealogy, id)
            IN [err |-> Ok,
                keywords |-> updateGenealogy(inserted, id, newGenealogy),
                kw |-> [id |-> id, name |-> name, lc_name |-> ToLower(name),
                        parent |-> parentID, genealogy |-> newGenealogy]]

\* A variant of GetKeywordByName that compares the names as written (mutation
\* for C7).
getKeywordByNameExact(kws, name) ==
    LET found == {k \in kws : k.name = name}
    IN IF found = {} THEN Null ELSE Some(FirstRow(found))

\* AddKeyword when its second statement, the UPDATE of the genealogy, fails:
\* the INSERT was a statement of its own on c.db and stays.
addKeywordStampFails(kws, name, parentID) ==
    LET parent == IF parentID.valid THEN getById(kws, parentID.v)
                  ELSE [err |-> Ok, row |-> Null]
    IN IF parent.err # Ok
       THEN [err |-> "parent keyword not found", keywords |-> kws, id |-> 0,
             genealogy |-> EmptyStr]
       ELSE LET genealogy == IF parentID.valid THEN parent.row.genealogy ELSE EmptyStr
                id == NextId(kws)
            IN [err |-> "failed to update genealogy",
                keywords |-> kws \cup {[id |-> id, name |-> name, lc_name |-> ToLower(name),
                                        parent |-> parentID, genealogy |-> genealogy]},
                id |-> id, genealogy |-> genealogy]

\* GetKeywordByName: the first row whose lc_name is the lower-cased name.
getKeywordByName(kws, name) ==
    LET found == {k \in kws : k.lc_name = ToLower(name)}
    IN IF found = {} THEN Null ELSE Some(FirstRow(found))

\* GetOrCreateKeyword: the keyword of that name when there is one, else AddKeyword.
getOrCreateKeyword(kws, name, parentID) ==
    LET kw == getKeywordByName(kws, name)
    IN IF kw.valid THEN [err |-> Ok, keywords |-> kws, kw |-> kw.v]
       ELSE addKeyword(kws, name, parentID)

\* CreateHierarchicalKeywords: the loop over the parts of the path, with the
\* keywords, the parent id and the last keyword it carries from part to part.
RECURSIVE createHierarchyLoop(_, _, _, _)
createHierarchyLoop(parts, kws, parentID, lastKeyword) ==
    IF parts = <<>> THEN [err |-> Ok, keywords |-> kws, kw |-> lastKeyword]
    ELSE LET name == TrimSpace(Head(parts))
         IN IF name = EmptyStr
            THEN createHierarchyLoop(Tail(parts), kws, parentID, lastKeyword)
            ELSE LET got == getOrCreateKeyword(kws, name, parentID)
                 IN IF got.err # Ok
                    THEN [err |-> got.err, keywords |-> got.keywords, kw |-> Null]
                    ELSE createHierarchyLoop(Tail(parts), got.keywords,
                                             Some(got.kw.id), Some(got.kw))

createHierarchicalKeywords(kws, path) ==
    LET parts == Split(path, Slash)
    IN IF Len(parts) = 0
       THEN [err |-> "empty keyword path", keywords |-> kws, kw |-> Null]
       ELSE createHierarchyLoop(parts, kws, Null, Null)

\* INSERT OR IGNORE INTO AgLibraryKeywordImage (image, tag): the row is dropped
\* when it breaks a uniqueness constraint; the table has its primary key only,
\* and the new row takes a fresh one.
insertOrIgnore(table, row) ==
    IF \E r \in table : r.id = row.id THEN table ELSE table \cup {row}

\* AddKeywordToImage (the lastApplied time it then sets is not kept in the rows).
addKeywordToImage(kis, imageID, keywordID) ==
    insertOrIgnore(kis, [id |-> NextId(kis), image |-> imageID, tag |-> keywordID])

\* RemoveKeywordFromImage
removeKeywordFromImage(kis, imageID, keywordID) ==
    {r \in kis : ~(r.image = imageID /\ r.tag = keywordID)}

\* ------------------------------------------------------------ collections
CollectionTypeStandard == "com.adobe.ag.library.collection"
CollectionTypeGroup == "com.adobe.ag.library.group"

\* AddCollection: as AddKeyword, on AgLibraryCollection; imageCount starts NULL.
addCollection(colls, name, collectionType, parentID) ==
    LET parent == IF parentID.valid THEN getById(colls, parentID.v)
                  ELSE [err |-> Ok, row |-> Null]
    IN IF parent.err # Ok
       THEN [err |-> "parent collection not found", collections |-> colls, coll |-> Null]
       ELSE LET genealogy == IF parentID.valid THEN parent.row.genealogy ELSE EmptyStr
                id == NextId(colls)
                inserted == colls \cup {[id |-> id, name |-> name, creationId |-> collectionType,
                                         parent |-> parentID, genealogy |-> genealogy,
                                         imageCount |-> Null]}
                newGenealogy == stampGenealogy(genealogy, id)
            IN [err |-> Ok,
                collections |-> updateGenealogy(inserted, id, newGenealogy),
                coll |-> [id |-> id, name |-> name, creationId |-> collectionType,
                          parent |-> parentID, genealogy |-> newGenealogy]]

\* AddCollection when its second statement, the UPDATE of the genealogy, fails.
addCollectionStampFails(colls, name, collectionType, parentID) ==
    LET parent == IF parentID.valid THEN getById(colls, parentID.v)
                  ELSE [err |-> Ok, row |-> Null]
    IN IF parent.err # Ok
       THEN [err |-> "parent collection not found", collections |-> colls, id |-> 0,
             genealogy |-> EmptyStr]
       ELSE LET genealogy == IF parentID.valid THEN parent.row.genealogy ELSE EmptyStr
                id == NextId(colls)
            IN [err |-> "failed to update genealogy",
                collections |-> colls \cup {[id |-> id, name |-> name,
                                             creationId |-> collectionType,
                                             parent |-> parentID, genealogy |-> genealogy,
                                             imageCount |-> Null]},
                id |-> id, genealogy |-> genealogy]

\* SELECT MAX(positionInCollection) ... WHERE collection = ?: NULL without rows.
maxPosition(cis, collectionID) ==
    LET rows == {r \in cis : r.collection = collectionID}
    IN IF rows = {} THEN Null ELSE Some(MaxOf({r.positionInCollection : r \in rows}))

\* A variant of nextPosition that forgets the increment (mutation for C3).
nextPositionStale(maxPos) == IF maxPos.valid THEN maxPos.v ELSE 1

\* The position AddImageToCollection gives the new row.
nextPosition(maxPos) == IF maxPos.valid THEN maxPos.v + 1 ELSE 1

\* A variant of updateCollectionImageCount that counts the rows only while the
\* collection has no count yet (a variant for comparison).
updateCollectionImageCountOnce(colls, cis, collectionID) ==
    {IF c.id = collectionID /\ ~c.imageCount.valid
     THEN [c EXCEPT !.imageCount =
               Some(Cardinality({r \in cis : r.collection = collectionID}))]
     ELSE c : c \in colls}

\* updateCollectionImageCount: imageCount := COUNT(*) of the collection's rows.
updateCollectionImageCount(colls, cis, collectionID) ==
    {IF c.id = collectionID
     THEN [c EXCEPT !.imageCount =
               Some(Cardinality({r \in cis : r.collection = collectionID}))]
     ELSE c : c \in colls}

\* AddImageToCollection: INSERT OR IGNORE of the row at the next position (the
\* table has its primary key only), then the count.
addImageToCollection(colls, cis, imageID, collectionID) ==
    LET position == nextPosition(maxPosition(cis, collectionID))
        rows == insertOrIgnore(cis, [id |-> NextId(cis), collection |-> collectionID,
                                     image |-> imageID, pick |-> 0,
                                     positionInCollection |-> position])
    IN [collImages |-> rows,
        collections |-> updateCollectionImageCount(colls, rows, collectionID)]

\* A variant of RemoveImageFromCollection that leaves the count for later
\* (mutation for C2).
removeImageFromCollectionLazy(colls, cis, imageID, collectionID) ==
    [collImages |-> {r \in cis : ~(r.image = imageID /\ r.collection = collectionID)},
     collections |-> colls]

\* RemoveImageFromCollection: DELETE of the pair's rows, then the count.
removeImageFromCollection(colls, cis, imageID, collectionID) ==
    LET rows == {r \in cis : ~(r.image = imageID /\ r.collection = collectionID)}
    IN [collImages |-> rows,
        collections |-> updateCollectionImageCount(colls, rows, collectionID)]

\* GetCollectionImages: the collection's rows joined with Adobe_images, ORDER BY
\* positionInCollection.  Rows of equal position come in an order SQL leaves
\* open, so the answer is any of the sequences sorted by position.
RECURSIVE SortedByPosition(_)
SortedByPosition(rows) ==
    IF rows = {} THEN {<<>>}
    ELSE UNION {{<<r.image>> \o rest : rest \in SortedByPosition(rows \ {r})} :
                r \in {x \in rows :
                         \A y \in rows : x.positionInCollection <= y.positionInCollection}}

GetCollectionImages(imgs, cis, collectionID) ==
    SortedByPosition({r \in cis : r.collection = collectionID
                                   /\ \E i \in imgs : i.id = r.image})

\* DeleteCollection without its first DELETE (a variant for comparison).
deleteCollectionRowOnly(colls, cis, collectionID) ==
    [collImages |-> cis,
     collections |-> {c \in colls : c.id # collectionID}]

\* DeleteCollection: the collection's membership rows, then its row
\* (AgLibraryCollectionContent, which nothing here writes, is always empty).
deleteCollection(colls, cis, collectionID) ==
    [collImages |-> {r \in cis : r.collection # collectionID},
     collections |-> {c \in colls : c.id # collectionID}]

\* ------------------------------------------------------------------ inputs
\* File paths given to AddImage: /a/x.j, /a/y, /a/b/z and /b/x.
FilePathInputs ==
    { <<"/", "a", "/", "x", ".", "j">>, <<"/", "a", "/", "y">>,
      <<"/", "a", "/", "b", "/", "z">>, <<"/", "b", "/", "x">> }
\* The file path the membership runs add their images at.
MemberFilePathInputs == { <<"/", "a", "/", "x", ".", "j">> }
\* Paths given to AddRootFolder: /a, /a/ and /a/b.
RootPathInputs == { <<"/", "a">>, <<"/", "a", "/">>, <<"/", "a", "/", "b">> }
\* Relative paths given to AddFolder and GetOrCreateFolder: "", b and b/.
RelPathInputs == { <<>>, <<"b">>, <<"b", "/">> }
\* Keyword names: a, A and b.
KeywordNameInputs == { <<"a">>, <<"A">>, <<"b">> }
\* Keyword paths: a/b, a/b/c, A/b/a, a/a, " a /b", a//b, "", "/" and " ".
KeywordPathInputs ==
    { <<"a", "/", "b">>, <<"a", "/", "b", "/", "c">>, <<"A", "/", "b", "/", "a">>,
      <<"a", "/", "a">>, <<" ", "a", " ", "/", "b">>, <<"a", "/", "/", "b">>,
      <<>>, <<"/">>, <<" ">> }
\* The inputs of AddImages: up to MaxBatch of the file paths /a/x.j and /a/b/z.
BatchPathInputs == { <<"/", "a", "/", "x", ".", "j">>, <<"/", "a", "/", "b", "/", "z">> }
BatchInputs == UNION {[1..n -> BatchPathInputs] : n \in 0..MaxBatch}
\* Texts of up to MaxXmpLen bytes ("<", "a", 0xFF), and blobs shorter than the
\* header: nil and every sequence of 0x00, 0x78, 0xFF.
XmpByteInputs == {60, 97, 255}
XmpInputs == UNION {[1..n -> XmpByteInputs] : n \in 0..MaxXmpLen}
ShortBlobInputs ==
    {NilBytes} \cup {Bytes(b) : b \in UNION {[1..n -> {0, 120, 255}] : n \in 0..(HeaderLen - 1)}}
\* Headers put in front of a stream: 0, 2^32 - 1 and 1; bytes written over a
\* byte of a stream.
HeaderInputs == { <<0, 0, 0, 0>>, <<255, 255, 255, 255>>, <<0, 0, 0, 1>> }
DamageByteInputs == {7, 255}
\* The texts given to SetXMP: "", "<" and "<a".
SetXmpInputs == { <<>>, <<60>>, <<60, 97>> }
\* The optional fields of an input: each nil, 0 or another value.
OptionsInputs ==
    [Rating : {Null, Some(0), Some(5)}, Width : {Null, Some(0)},
     Height : {Null, Some(7)}, Orientation : {Null, Some(0), Some(6)}]
\* The paths asked of ImageExists: those of FilePathInputs, /a/b/x.j and /b/x.j.
ExistsPathInputs ==
    FilePathInputs \cup { <<"/", "a", "/", "b", "/", "x", ".", "j">>,
                          <<"/", "b", "/", "x", ".", "j">> }
\* Root folders of which one lies in another, /a and /a/b, and one apart, /c;
\* files in them: /a/b/z, /a/y and /c/x.j.
NestedRootInputs ==
    { <<"/", "a">>, <<"/", "a", "/", "b">>, <<"/", "c">> }
NestedFileInputs ==
    { <<"/", "a", "/", "b", "/", "z">>, <<"/", "a", "/", "y">>,
      <<"/", "c", "/", "x", ".", "j">> }
\* Paths written with backslashes: the root folders \a, a\b and \a\, and the
\* files \a\x and /a\b/x.
BackslashRootInputs ==
    { <<"\\", "a">>, <<"a", "\\", "b">>, <<"\\", "a", "\\">> }
BackslashFileInputs ==
    { <<"\\", "a", "\\", "x">>, <<"/", "a", "\\", "b", "/", "x">> }
\* Files of the directories /a/b and /a: /a/b/x, /a/y and /a/b/z.
SameDirFileInputs ==
    { <<"/", "a", "/", "b", "/", "x">>, <<"/", "a", "/", "y">>,
      <<"/", "a", "/", "b", "/", "z">> }
CollectionNameInputs == { <<"A">> }
CollectionTypeInputs == { CollectionTypeStandard }

\* Identities a caller may pass.  A table starts empty, so each of them is at
\* first the identity of no row.
IdInputs(max) == 1..max
OptionalIdInputs(max) == {Null} \cup {Some(i) : i \in IdInputs(max)}

\* ---------------------------------------------------- history bookkeeping
\* The first answer of a get-or-create for a key is remembered, with the
\* argument as that call wrote it.
Remember(key, id, arg) ==
    IF \E e \in firstGot : e.key = key THEN firstGot
    ELSE firstGot \cup {[key |-> key, id |-> id, arg |-> arg]}

\* What two calls of GetOrCreateFolder must agree on to ask for the same
\* folder: the root folder and the path less its trailing separator.
FolderKey(rootFolderID, pathFromRoot) ==
    <<"folder", rootFolderID, TrimSuffix(normalizePath(pathFromRoot), <<Slash>>)>>

\* The same for GetOrCreateKeyword: the name with its case folded.
KeywordKey(name) == <<"keyword", ToLower(name)>>

\* The images of a collection in the order the calls added them.
RemoveFromOrder(order, imageID) == SelectSeq(order, LAMBDA i : i # imageID)

UnchangedFolders == UNCHANGED <<rootFolders, folders>>
UnchangedAssets == UNCHANGED <<files, images, metadata, imports, importImages>>
UnchangedKeywords == UNCHANGED <<keywords, kwImages>>
UnchangedCollections == UNCHANGED <<collections, collImages, addOrder>>
UnchangedCatalog ==
    /\ UNCHANGED <<goos, calls, firstGot>>
    /\ UnchangedFolders /\ UnchangedAssets /\ UnchangedKeywords /\ UnchangedCollections

\* The goroutines that call AddImageToCollection at the same time, and a
\* goroutine that is in no call.  Of a call: pc, the statement it runs next;
\* position, what it computed from the maximum it read; overtaken, whether a row
\* of the collection was inserted by another call since it read.
Writers == 1..MaxWriters
Idle == [pc |-> "idle", image |-> 0, collection |-> 0, position |-> 0, overtaken |-> FALSE]

\* ----------------------------------------------------------------- actions
\* The tables are bounded by the rowid of the next insert: a table rows are
\* deleted from hands out ever larger rowids (and positions) otherwise.
\* AddRootFolder on a catalog of fewer than maxRoots root folders.
AddRootFolderUpTo(absolutePath, maxRoots) ==
    LET res == addRootFolder(rootFolders, absolutePath)
    IN /\ Cardinality(rootFolders) < maxRoots
       /\ rootFolders' = res.rootFolders
       /\ lastCall' = [op |-> "AddRootFolder", err |-> res.err]
       /\ UNCHANGED <<goos, calls, folders, firstGot>>
       /\ UnchangedAssets /\ UnchangedKeywords /\ UnchangedCollections

AddRootFolder(absolutePath) == AddRootFolderUpTo(absolutePath, MaxRoots)

AddFolder(rootFolderID, pathFromRoot) ==
    LET res == addFolder(folders, rootFolderID, pathFromRoot)
    IN /\ Cardinality(folders) < MaxFolders
       /\ folders' = res.folders
       /\ lastCall' = [op |-> "AddFolder", err |-> res.err]
       /\ UNCHANGED <<goos, calls, rootFolders, firstGot>>
       /\ UnchangedAssets /\ UnchangedKeywords /\ UnchangedCollections

GetOrCreateFolder(rootFolderID, pathFromRoot) ==
    LET res == getOrCreateFolder(folders, rootFolderID, pathFromRoot)
        key == FolderKey(rootFolderID, pathFromRoot)
    IN /\ Cardinality(res.folders) <= MaxFolders
       /\ folders' = res.folders
       /\ firstGot' = Remember(key, res.folder.id, pathFromRoot)
       /\ lastCall' = [op |-> "GetOrCreateFolder", err |-> res.err, key |-> key,
                       arg |-> pathFromRoot, id |-> res.folder.id]
       /\ UNCHANGED <<goos, calls, rootFolders>>
       /\ UnchangedAssets /\ UnchangedKeywords /\ UnchangedCollections

\* AddImage: the folder of the file's directory, then the file, image and
\* metadata rows.
\* AddImage of an input with the file path and the optional fields options, on
\* a catalog that holds at most maxRoots root folders, maxFolders folders and
\* maxImages images after it.
AddImageWithin(filePath, options, maxRoots, maxFolders, maxImages) ==
    \E rootList \in ListRootFolders(rootFolders) :
        LET absPath == normalizePath(filePath)
            dir == Dir(absPath)
            filename == Base(absPath)
            ext == TrimPrefix(Ext(filename), <<".">>)
            baseName == TrimSuffix(filename, Ext(filename))
            ens == ensureFolderPath(rootFolders, folders, rootList, dir)
            file == addFile(files, ens.folder.id, baseName, ext, filename)
            image == addImageRecord(images, file.file.id, options)
        IN /\ Cardinality(images) < maxImages
           /\ Cardinality(ens.rootFolders) <= maxRoots
           /\ Cardinality(ens.folders) <= maxFolders
           /\ rootFolders' = ens.rootFolders
           /\ folders' = ens.folders
           /\ IF ens.err # Ok
              THEN /\ UnchangedAssets
                   /\ UNCHANGED firstGot
                   /\ lastCall' = [op |-> "AddImage", err |-> "failed to ensure folder path"]
              ELSE /\ files' = file.files
                   /\ images' = image.images
                   /\ metadata' = addAdditionalMetadata(metadata, image.image.id)
                   /\ UNCHANGED <<imports, importImages>>
                   /\ firstGot' = Remember(<<"image", image.image.id>>, image.image.id,
                                           [FilePath |-> filePath,
                                            Rating |-> options.Rating,
                                            Width |-> options.Width,
                                            Height |-> options.Height,
                                            Orientation |-> options.Orientation])
                   /\ lastCall' = [op |-> "AddImage", err |-> Ok, dir |-> dir,
                                   id |-> image.image.id, root |-> ens.root.id,
                                   empty |-> rootFolders = {} /\ folders = {}]
           /\ UNCHANGED <<goos, calls>>
           /\ UnchangedKeywords /\ UnchangedCollections

AddImageUpTo(filePath, options, maxRoots) ==
    AddImageWithin(filePath, options, maxRoots, MaxFolders, MaxImages)

AddImageWith(filePath, options) == AddImageUpTo(filePath, options, MaxRoots)

\* AddImage of an input that sets the file path only.
AddImage(filePath) == AddImageWith(filePath, NoOptions)

ImageExists(filePath) ==
    /\ lastCall' = [op |-> "ImageExists", err |-> Ok, path |-> filePath,
                    exists |-> imageExists(rootFolders, folders, files, filePath)]
    /\ UnchangedCatalog

GetImage(id) ==
    LET res == getImage(images, id)
    IN /\ lastCall' = [op |-> "GetImage", err |-> res.err, id |-> id, image |-> res.image]
       /\ UnchangedCatalog

\* AddImages, with the input (if any) at which a statement of the transaction
\* fails.
AddImages(inputs, failAt) ==
    \E out \in addImages([rootFolders |-> rootFolders, folders |-> folders, files |-> files,
                          images |-> images, metadata |-> metadata, imports |-> imports,
                          importImages |-> importImages, err |-> Ok], inputs, failAt) :
        /\ Cardinality(out.images) <= MaxImages
        /\ Cardinality(out.rootFolders) <= MaxRoots
        /\ Cardinality(out.folders) <= MaxFolders
        /\ Cardinality(out.imports) <= MaxImports
        /\ rootFolders' = out.rootFolders
        /\ folders' = out.folders
        /\ files' = out.files
        /\ images' = out.images
        /\ metadata' = out.metadata
        /\ imports' = out.imports
        /\ importImages' = out.importImages
        /\ lastCall' = [op |-> "AddImages", err |-> out.err, inputs |-> inputs]
        /\ UNCHANGED <<goos, calls, firstGot>>
        /\ UnchangedKeywords /\ UnchangedCollections

\* A call of CompressXMP.
CompressXMPCall(xmp) ==
    LET res == CompressXMP(xmp)
    IN /\ lastCall' = [op |-> "CompressXMP", err |-> res.err, xmp |-> xmp, data |-> res.data]
       /\ UnchangedCatalog

\* A call of DecompressXMP, on what the last call of CompressXMP returned
\* (encoded, xmp being the text that was compressed) or on a given blob.
DecompressXMPCall(data, encoded, xmp) ==
    LET res == DecompressXMP(data)
    IN /\ lastCall' = [op |-> "DecompressXMP", err |-> res.err, data |-> data,
                       encoded |-> encoded, xmp |-> xmp, text |-> res.text]
       /\ UnchangedCatalog

SetXMP(imageID, xmp) ==
    LET res == setXMP(metadata, imageID, xmp)
    IN /\ metadata' = res.metadata
       /\ lastCall' = [op |-> "SetXMP", err |-> res.err, image |-> imageID, xmp |-> xmp]
       /\ UNCHANGED <<goos, calls, firstGot, files, images, imports, importImages>>
       /\ UnchangedFolders /\ UnchangedKeywords /\ UnchangedCollections

GetXMP(imageID) ==
    LET res == getXMP(metadata, imageID)
    IN /\ lastCall' = [op |-> "GetXMP", err |-> res.err, image |-> imageID, xmp |-> res.text]
       /\ UnchangedCatalog

AddKeyword(name, parentID) ==
    LET res == addKeyword(keywords, name, parentID)
    IN /\ Cardinality(keywords) < MaxKeywords
       /\ keywords' = res.keywords
       /\ lastCall' = [op |-> "AddKeyword", err |-> res.err, parent |-> parentID,
                       result |-> res.kw]
       /\ UNCHANGED <<goos, calls, kwImages, firstGot>>
       /\ UnchangedFolders /\ UnchangedAssets /\ UnchangedCollections

\* AddKeyword on a store whose UPDATE statement fails.
AddKeywordStampFails(name, parentID) ==
    LET res == addKeywordStampFails(keywords, name, parentID)
    IN /\ Cardinality(keywords) < MaxKeywords
       /\ keywords' = res.keywords
       /\ lastCall' = [op |-> "AddKeyword", err |-> res.err, parent |-> parentID,
                       newId |-> res.id, placeholder |-> res.genealogy]
       /\ UNCHANGED <<goos, calls, kwImages, firstGot>>
       /\ UnchangedFolders /\ UnchangedAssets /\ UnchangedCollections

GetOrCreateKeyword(name, parentID) ==
    LET res == getOrCreateKeyword(keywords, name, parentID)
        key == KeywordKey(name)
    IN /\ Cardinality(res.keywords) <= MaxKeywords
       /\ keywords' = res.keywords
       /\ firstGot' = IF res.err = Ok THEN Remember(key, res.kw.id, name) ELSE firstGot
       /\ lastCall' = [op |-> "GetOrCreateKeyword", err |-> res.err, key |-> key,
                       arg |-> name, id |-> IF res.err = Ok THEN res.kw.id ELSE 0]
       /\ UNCHANGED <<goos, calls, kwImages>>
       /\ UnchangedFolders /\ UnchangedAssets /\ UnchangedCollections

CreateHierarchicalKeywords(path) ==
    LET res == createHierarchicalKeywords(keywords, path)
    IN /\ Cardinality(res.keywords) <= MaxKeywords
       /\ keywords' = res.keywords
       /\ lastCall' = [op |-> "CreateHierarchicalKeywords", err |-> res.err, path |-> path,
                       result |-> res.kw, empty |-> keywords = {}]
       /\ UNCHANGED <<goos, calls, kwImages, firstGot>>
       /\ UnchangedFolders /\ UnchangedAssets /\ UnchangedCollections

AddKeywordToImage(imageID, keywordID) ==
    /\ NextId(kwImages) <= MaxMemberships
    /\ Cardinality(collImages) + Cardinality(kwImages) < MaxMemberships
    /\ kwImages' = addKeywordToImage(kwImages, imageID, keywordID)
    /\ lastCall' = [op |-> "AddKeywordToImage", err |-> Ok, image |-> imageID,
                    keyword |-> keywordID,
                    wasMember |-> \E r \in kwImages : r.image = imageID /\ r.tag = keywordID]
    /\ UNCHANGED <<goos, calls, keywords, firstGot>>
    /\ UnchangedFolders /\ UnchangedAssets /\ UnchangedCollections

RemoveKeywordFromImage(imageID, keywordID) ==
    /\ kwImages' = removeKeywordFromImage(kwImages, imageID, keywordID)
    /\ lastCall' = [op |-> "RemoveKeywordFromImage", err |-> Ok]
    /\ UNCHANGED <<goos, calls, keywords, firstGot>>
    /\ UnchangedFolders /\ UnchangedAssets /\ UnchangedCollections

AddCollection(name, collectionType, parentID) ==
    LET res == addCollection(collections, name, collectionType, parentID)
    IN /\ NextId(collections) <= MaxCollections
       /\ collections' = res.collections
       /\ lastCall' = [op |-> "AddCollection", err |-> res.err, parent |-> parentID,
                       result |-> res.coll]
       /\ UNCHANGED <<goos, calls, collImages, addOrder, firstGot>>
       /\ UnchangedFolders /\ UnchangedAssets /\ UnchangedKeywords

\* AddCollection on a store whose UPDATE statement fails.
AddCollectionStampFails(name, collectionType, parentID) ==
    LET res == addCollectionStampFails(collections, name, collectionType, parentID)
    IN /\ NextId(collections) <= MaxCollections
       /\ collections' = res.collections
       /\ lastCall' = [op |-> "AddCollection", err |-> res.err, parent |-> parentID,
                       newId |-> res.id, placeholder |-> res.genealogy]
       /\ UNCHANGED <<goos, calls, collImages, addOrder, firstGot>>
       /\ UnchangedFolders /\ UnchangedAssets /\ UnchangedKeywords

AddImageToCollection(imageID, collectionID) ==
    LET res == addImageToCollection(collections, collImages, imageID, collectionID)
    IN /\ NextId(collImages) <= MaxMemberships
       /\ Cardinality(collImages) + Cardinality(kwImages) < MaxMemberships
       /\ collImages' = res.collImages
       /\ collections' = res.collections
       /\ addOrder' = [addOrder EXCEPT ![collectionID] = Append(@, imageID)]
       /\ lastCall' = [op |-> "AddImageToCollection", err |-> Ok, image |-> imageID,
                       collection |-> collectionID,
                       wasMember |-> \E r \in collImages :
                                        r.image = imageID /\ r.collection = collectionID]
       /\ UNCHANGED <<goos, calls, firstGot>>
       /\ UnchangedFolders /\ UnchangedAssets /\ UnchangedKeywords

\* AddImageToCollection statement by statement, each statement of c.db atomic,
\* the statements of the calls of different goroutines in any order.
\* First statement: SELECT MAX(positionInCollection), and the position from it.
ReadMaxPosition(g, imageID, collectionID) ==
    /\ calls[g].pc = "idle"
    /\ NextId(collImages) + Cardinality({h \in Writers : calls[h].pc = "insert"})
          <= MaxWriters
    /\ calls' = [calls EXCEPT ![g] =
                    [pc |-> "insert", image |-> imageID, collection |-> collectionID,
                     position |-> nextPosition(maxPosition(collImages, collectionID)),
                     overtaken |-> FALSE]]
    /\ UNCHANGED <<goos, firstGot, lastCall>>
    /\ UnchangedFolders /\ UnchangedAssets /\ UnchangedKeywords /\ UnchangedCollections

\* Second statement: INSERT OR IGNORE of the row at that position.
InsertMembership(g) ==
    LET call == calls[g]
        rows == insertOrIgnore(collImages,
                               [id |-> NextId(collImages), collection |-> call.collection,
                                image |-> call.image, pick |-> 0,
                                positionInCollection |-> call.position])
    IN /\ call.pc = "insert"
       /\ collImages' = rows
       /\ addOrder' = [addOrder EXCEPT ![call.collection] = Append(@, call.image)]
       /\ calls' = [h \in Writers |->
                       IF h = g THEN [call EXCEPT !.pc = "count"]
                       ELSE IF calls[h].pc = "insert" /\ calls[h].collection = call.collection
                            THEN [calls[h] EXCEPT !.overtaken = TRUE]
                            ELSE calls[h]]
       /\ UNCHANGED <<goos, firstGot, lastCall, collections>>
       /\ UnchangedFolders /\ UnchangedAssets /\ UnchangedKeywords

\* Third statement: updateCollectionImageCount; the call returns.
UpdateImageCount(g) ==
    LET call == calls[g]
    IN /\ call.pc = "count"
       /\ collections' = updateCollectionImageCount(collections, collImages, call.collection)
       /\ calls' = [calls EXCEPT ![g] = Idle]
       /\ lastCall' = [op |-> "AddImageToCollection", err |-> Ok, image |-> call.image,
                       collection |-> call.collection, wasMember |-> FALSE]
       /\ UNCHANGED <<goos, firstGot, collImages, addOrder>>
       /\ UnchangedFolders /\ UnchangedAssets /\ UnchangedKeywords

\* RemoveImageFromCollection statement by statement.
\* First statement: DELETE of the pair's rows.
DeleteMembership(g, imageID, collectionID) ==
    /\ calls[g].pc = "idle"
    /\ collImages' = {r \in collImages : ~(r.image = imageID /\ r.collection = collectionID)}
    /\ addOrder' = [addOrder EXCEPT ![collectionID] = RemoveFromOrder(@, imageID)]
    /\ calls' = [calls EXCEPT ![g] =
                    [pc |-> "recount", image |-> imageID, collection |-> collectionID,
                     position |-> 0, overtaken |-> FALSE]]
    /\ UNCHANGED <<goos, firstGot, lastCall, collections>>
    /\ UnchangedFolders /\ UnchangedAssets /\ UnchangedKeywords

\* Second statement: updateCollectionImageCount; the call returns.
RecountAfterRemove(g) ==
    LET call == calls[g]
    IN /\ call.pc = "recount"
       /\ collections' = updateCollectionImageCount(collections, collImages, call.collection)
       /\ calls' = [calls EXCEPT ![g] = Idle]
       /\ lastCall' = [op |-> "RemoveImageFromCollection", err |-> Ok,
                       collection |-> call.collection]
       /\ UNCHANGED <<goos, firstGot, collImages, addOrder>>
       /\ UnchangedFolders /\ UnchangedAssets /\ UnchangedKeywords

RemoveImageFromCollection(imageID, collectionID) ==
    LET res == removeImageFromCollection(collections, collImages, imageID, collectionID)
    IN /\ collImages' = res.collImages
       /\ collections' = res.collections
       /\ addOrder' = [addOrder EXCEPT ![collectionID] = RemoveFromOrder(@, imageID)]
       /\ lastCall' = [op |-> "RemoveImageFromCollection", err |-> Ok,
                       collection |-> collectionID]
       /\ UNCHANGED <<goos, calls, firstGot>>
       /\ UnchangedFolders /\ UnchangedAssets /\ UnchangedKeywords

DeleteCollection(collectionID) ==
    LET res == deleteCollection(collections, collImages, collectionID)
    IN /\ collImages' = res.collImages
       /\ collections' = res.collections
       /\ addOrder' = [addOrder EXCEPT ![collectionID] = <<>>]
       /\ lastCall' = [op |-> "DeleteCollection", err |-> Ok, collection |-> collectionID,
                       removed |-> Cardinality({r \in collImages :
                                                  r.collection = collectionID})]
       /\ UNCHANGED <<goos, calls, firstGot>>
       /\ UnchangedFolders /\ UnchangedAssets /\ UnchangedKeywords

\* ---------------------------------------------------------- specifications
\* A catalog as NewCatalog leaves it: every table empty.
EmptyCatalog ==
    /\ rootFolders = {} /\ folders = {} /\ files = {} /\ images = {} /\ metadata = {}
    /\ imports = {} /\ importImages = {}
    /\ calls = [g \in Writers |-> Idle]
    /\ keywords = {} /\ kwImages = {}
    /\ collections = {} /\ collImages = {}
    /\ lastCall = [op |-> "NewCatalog", err |-> Ok]
    /\ addOrder = [c \in IdInputs(MaxCollections) |-> <<>>]
    /\ firstGot = {}

\* The runs give no path with a backslash, and the build does not matter.
Init == goos = "linux" /\ EmptyCatalog

\* A catalog of either build.
InitAnyBuild == goos \in {"linux", "windows"} /\ EmptyCatalog

\* Folders and assets.
NextFolder ==
    \/ \E p \in RootPathInputs : AddRootFolder(p)
    \/ \E r \in IdInputs(MaxRoots), p \in RelPathInputs : AddFolder(r, p)
    \/ \E r \in IdInputs(MaxRoots), p \in RelPathInputs : GetOrCreateFolder(r, p)
    \/ \E f \in FilePathInputs : AddImage(f)

SpecFolder == Init /\ [][NextFolder]_vars

\* Keywords by name and by path.
NextKeyword ==
    \/ \E n \in KeywordNameInputs, p \in OptionalIdInputs(MaxKeywords) : AddKeyword(n, p)
    \/ \E n \in KeywordNameInputs, p \in OptionalIdInputs(MaxKeywords) : GetOrCreateKeyword(n, p)
    \/ \E path \in KeywordPathInputs : CreateHierarchicalKeywords(path)

SpecKeyword == Init /\ [][NextKeyword]_vars

\* Keywords and collections as hierarchical entities.
NextHier ==
    \/ \E n \in KeywordNameInputs, p \in OptionalIdInputs(MaxKeywords) : AddKeyword(n, p)
    \/ \E n \in CollectionNameInputs, t \in CollectionTypeInputs,
          p \in OptionalIdInputs(MaxCollections) : AddCollection(n, t, p)
    \/ \E c \in IdInputs(MaxCollections) : DeleteCollection(c)

SpecHier == Init /\ [][NextHier]_vars

\* Memberships of images in the collections of ids up to MaxAlbums.
NextMember ==
    \/ \E f \in MemberFilePathInputs : AddImage(f)
    \/ \E n \in CollectionNameInputs, t \in CollectionTypeInputs :
          NextId(collections) <= MaxAlbums /\ AddCollection(n, t, Null)
    \/ \E i \in IdInputs(MaxImages), c \in IdInputs(MaxAlbums) : AddImageToCollection(i, c)
    \/ \E i \in IdInputs(MaxImages), c \in IdInputs(MaxAlbums) :
          RemoveImageFromCollection(i, c)
    \/ \E c \in IdInputs(MaxAlbums) : DeleteCollection(c)

SpecMember == Init /\ [][NextMember]_vars

\* Memberships of images in collections and of keywords on images, added twice
\* or more.
NextTag ==
    \/ \E f \in MemberFilePathInputs : AddImage(f)
    \/ \E n \in CollectionNameInputs, t \in CollectionTypeInputs :
          NextId(collections) <= MaxAlbums /\ AddCollection(n, t, Null)
    \/ \E i \in IdInputs(MaxImages), c \in IdInputs(MaxAlbums) : AddImageToCollection(i, c)
    \/ \E i \in IdInputs(MaxImages), k \in IdInputs(MaxTags) : AddKeywordToImage(i, k)
    \/ \E i \in IdInputs(MaxImages), k \in IdInputs(MaxTags) : RemoveKeywordFromImage(i, k)

SpecTag == Init /\ [][NextTag]_vars

\* Keywords and collections on a store whose statements can fail.
NextFault ==
    \/ \E n \in KeywordNameInputs, p \in OptionalIdInputs(MaxKeywords) : AddKeyword(n, p)
    \/ \E n \in KeywordNameInputs, p \in OptionalIdInputs(MaxKeywords) :
          AddKeywordStampFails(n, p)
    \/ \E n \in CollectionNameInputs, t \in CollectionTypeInputs,
          p \in OptionalIdInputs(MaxCollections) : AddCollection(n, t, p)
    \/ \E n \in CollectionNameInputs, t \in CollectionTypeInputs,
          p \in OptionalIdInputs(MaxCollections) : AddCollectionStampFails(n, t, p)

SpecFault == Init /\ [][NextFault]_vars

\* Imports in bulk, on a store whose statements can fail.
NextImport ==
    \/ \E f \in BatchPathInputs : AddImage(f)
    \/ \E inputs \in BatchInputs, failAt \in 0..MaxBatch : AddImages(inputs, failAt)

SpecImport == Init /\ [][NextImport]_vars

\* The blob codec alone.
NextCodec ==
    \/ \E xmp \in XmpInputs : CompressXMPCall(xmp)
    \/ /\ lastCall.op = "CompressXMP" /\ lastCall.err = Ok
       /\ DecompressXMPCall(lastCall.data, TRUE, lastCall.xmp)
    \/ \E data \in ShortBlobInputs : DecompressXMPCall(data, FALSE, <<>>)

SpecCodec == Init /\ [][NextCodec]_vars

\* The stream of the blob that the last call of CompressXMP returned.
LastStream == SubSeq(lastCall.data.bytes, HeaderLen + 1, Len(lastCall.data.bytes))
Compressed ==
    lastCall.op = "CompressXMP" /\ lastCall.err = Ok /\ ~lastCall.data.nil

\* The blob codec on blobs that are not as CompressXMP made them: another
\* header; the stream cut short; a byte of the stream overwritten.
NextBlob ==
    \/ \E xmp \in XmpInputs : CompressXMPCall(xmp)
    \/ \E header \in HeaderInputs :
          /\ Compressed
          /\ DecompressXMPCall(Bytes(header \o LastStream), FALSE, lastCall.xmp)
    \/ \E header \in HeaderInputs, n \in 0..(MaxXmpLen + 10) :
          /\ Compressed
          /\ n < Len(LastStream)
          /\ DecompressXMPCall(Bytes(header \o SubSeq(LastStream, 1, n)), FALSE,
                               lastCall.xmp)
    \/ \E i \in 1..(MaxXmpLen + 11), v \in DamageByteInputs :
          /\ Compressed
          /\ i <= Len(LastStream)
          /\ LastStream[i] # v
          /\ DecompressXMPCall(
                 Bytes(SubSeq(lastCall.data.bytes, 1, HeaderLen)
                         \o [LastStream EXCEPT ![i] = v]),
                 FALSE, lastCall.xmp)

SpecBlob == Init /\ [][NextBlob]_vars

\* Assets and their XMP blobs.
NextXmp ==
    \/ \E f \in MemberFilePathInputs : AddImage(f)
    \/ \E inputs \in BatchInputs : AddImages(inputs, 0)
    \/ \E i \in IdInputs(MaxImages), xmp \in SetXmpInputs : SetXMP(i, xmp)
    \/ \E i \in IdInputs(MaxImages) : GetXMP(i)

SpecXmp == Init /\ [][NextXmp]_vars

\* Assets and their optional fields.
NextImage ==
    \/ \E f \in MemberFilePathInputs, options \in OptionsInputs : AddImageWith(f, options)
    \/ \E i \in IdInputs(MaxImages) : GetImage(i)

SpecImage == Init /\ [][NextImage]_vars

\* Assets and the question whether a path has one.
NextExists ==
    \/ \E p \in RootPathInputs : AddRootFolder(p)
    \/ \E f \in FilePathInputs : AddImage(f)
    \/ \E f \in ExistsPathInputs : ImageExists(f)

SpecExists == Init /\ [][NextExists]_vars

\* Collections with their members, deleted: up to MaxAlbums images in up to
\* MaxCollections collections, by as many membership rows.
NextDelete ==
    \/ \E f \in MemberFilePathInputs : Cardinality(images) < MaxAlbums /\ AddImage(f)
    \/ \E n \in CollectionNameInputs : AddCollection(n, CollectionTypeStandard, Null)
    \/ \E i \in IdInputs(MaxAlbums), c \in IdInputs(MaxCollections) :
          Cardinality(collImages) < MaxCollections /\ AddImageToCollection(i, c)
    \/ \E c \in IdInputs(MaxCollections) : DeleteCollection(c)

SpecDelete == Init /\ [][NextDelete]_vars

\* Root folders that lie in one another, and assets under them.
NextRoots ==
    \/ \E p \in NestedRootInputs : AddRootFolderUpTo(p, MaxNestedRoots)
    \/ \E f \in NestedFileInputs : AddImageUpTo(f, NoOptions, MaxNestedRoots)
    \/ \E f \in NestedFileInputs : ImageExists(f)

SpecRoots == Init /\ [][NextRoots]_vars

\* Goroutines that add images to a collection at the same time.
NextRace ==
    \/ \E f \in MemberFilePathInputs : AddImage(f)
    \/ \E n \in CollectionNameInputs, t \in CollectionTypeInputs :
          NextId(collections) <= MaxAlbums /\ AddCollection(n, t, Null)
    \/ \E g \in Writers, i \in IdInputs(MaxImages), c \in IdInputs(MaxAlbums) :
          /\ \E img \in images : img.id = i
          /\ \E row \in collections : row.id = c
          /\ ReadMaxPosition(g, i, c)
    \/ \E g \in Writers : InsertMembership(g)
    \/ \E g \in Writers : UpdateImageCount(g)

SpecRace == Init /\ [][NextRace]_vars

\* Goroutines that add images to a collection and remove images from it at the
\* same time: one image and one collection, the calls all on that pair.
\* Positions only grow while rows come and go, so an add starts only while the
\* position it would take is at most MaxMemberships.
NextChurn ==
    \/ \E f \in MemberFilePathInputs : images = {} /\ AddImage(f)
    \/ \E n \in CollectionNameInputs, t \in CollectionTypeInputs :
          collections = {} /\ AddCollection(n, t, Null)
    \/ \E g \in Writers, i \in IdInputs(MaxImages), c \in IdInputs(MaxAlbums) :
          /\ \E img \in images : img.id = i
          /\ \E row \in collections : row.id = c
          /\ nextPosition(maxPosition(collImages, c)) <= MaxMemberships
          /\ ReadMaxPosition(g, i, c)
    \/ \E g \in Writers : InsertMembership(g)
    \/ \E g \in Writers : UpdateImageCount(g)
    \/ \E g \in Writers, i \in IdInputs(MaxImages), c \in IdInputs(MaxAlbums) :
          /\ \E img \in images : img.id = i
          /\ \E row \in collections : row.id = c
          /\ DeleteMembership(g, i, c)
    \/ \E g \in Writers : RecountAfterRemove(g)

SpecChurn == Init /\ [][NextChurn]_vars

\* Root folders of paths written with backslashes, on either build.
NextBackslash ==
    \/ \E p \in BackslashRootInputs : AddRootFolderUpTo(p, MaxNestedRoots)
    \/ \E f \in BackslashFileInputs : AddImageUpTo(f, NoOptions, MaxNestedRoots)
    \/ \E f \in BackslashFileInputs : ImageExists(f)

SpecBackslash == InitAnyBuild /\ [][NextBackslash]_vars

\* Assets of a directory and of the directory above it, by AddImage alone.
NextSameDir ==
    \/ \E f \in SameDirFileInputs :
          AddImageWithin(f, NoOptions, MaxNestedRoots, MaxFolders + 1, MaxImages + 1)
    \/ \E f \in SameDirFileInputs : ImageExists(f)

SpecSameDir == Init /\ [][NextSameDir]_vars

\* ------------------------------------------------------------------ claims
\* The membership rows of an image in a collection, of a keyword on an image,
\* and of a collection.
PairRows(imageID, collectionID) ==
    {r \in collImages : r.image = imageID /\ r.collection = collectionID}
TagRows(imageID, keywordID) ==
    {r \in kwImages : r.image = imageID /\ r.tag = keywordID}
CollectionRows(collectionID) == {r \in collImages : r.collection = collectionID}

Distinct(seq) == \A i, j \in 1..Len(seq) : i # j => seq[i] # seq[j]

\* C1: when AddImageToCollection (AddKeywordToImage) is called for a pair that
\* is already a member, the call returns no error, exactly one membership row
\* exists for the pair afterwards, and the stored image count of the collection
\* counts each of its images once.
C1_DuplicateInsertIsNoOp ==
    /\ (lastCall.op = "AddImageToCollection" /\ lastCall.wasMember
            /\ (\E im \in images : im.id = lastCall.image)
            /\ (\E c \in collections : c.id = lastCall.collection)) =>
          /\ lastCall.err = Ok
          /\ Cardinality(PairRows(lastCall.image, lastCall.collection)) = 1
          /\ \A c \in collections : c.id = lastCall.collection =>
                c.imageCount =
                    Some(Cardinality({r.image : r \in CollectionRows(lastCall.collection)}))
    /\ (lastCall.op = "AddKeywordToImage" /\ lastCall.wasMember
            /\ (\E im \in images : im.id = lastCall.image)) =>
          /\ lastCall.err = Ok
          /\ Cardinality(TagRows(lastCall.image, lastCall.keyword)) = 1

\* C2: after every AddImageToCollection or RemoveImageFromCollection call on an
\* existing collection, the stored imageCount of that collection is the number
\* of its membership rows, which is the number of images added and not removed
\* since (N - M).
C2_ImageCountIsRowCount ==
    \A c \in collections :
        (lastCall.op \in {"AddImageToCollection", "RemoveImageFromCollection"}
            /\ lastCall.collection = c.id) =>
                /\ c.imageCount = Some(Cardinality(CollectionRows(c.id)))
                /\ c.imageCount = Some(Len(addOrder[c.id]))

\* C2 happens: two images of the catalog were added to an existing collection
\* and one of them was removed by the last call, leaving a count of 1.
C2_Witness ==
    /\ lastCall.op = "RemoveImageFromCollection"
    /\ \E c \in collections :
          /\ c.id = lastCall.collection
          /\ c.imageCount = Some(1)
          /\ Distinct(addOrder[c.id])
          /\ \A i \in {1, 2} : \E im \in images : im.id = i
          /\ \E r \in CollectionRows(c.id) : r.positionInCollection = 2

\* C3: for a collection whose images were added by calls with distinct images,
\* with removals in between or not, GetCollectionImages has one possible answer:
\* the images now in the collection, in the order the calls added them.
C3_ImagesInAddOrder ==
    \A c \in IdInputs(MaxCollections) :
        Distinct(addOrder[c]) =>
            GetCollectionImages(images, collImages, c) =
                {SelectSeq(addOrder[c], LAMBDA i : \E im \in images : im.id = i)}

\* C3 happens: image 1, then image 2 were added to collection 1, image 1 was
\* removed and added again, and the collection reads back as 2, 1.
C3_Witness ==
    /\ addOrder[1] = <<2, 1>>
    /\ \E c \in collections : c.id = 1 /\ c.imageCount = Some(2)
    /\ \A i \in {1, 2} : \E im \in images : im.id = i
    /\ \E r \in CollectionRows(1) : r.image = 1 /\ r.positionInCollection = 3
    /\ GetCollectionImages(images, collImages, 1) = {<<2, 1>>}


\* The file row of an image, and the folder rows of a root folder and path.
FileOfImage(fls, imgs, imageID) ==
    CHOOSE f \in fls : \E im \in imgs : im.id = imageID /\ im.rootFile = f.id
FoldersAt(flds, rootFolderID, pathFromRoot) ==
    {f \in flds : f.rootFolder = rootFolderID /\ f.pathFromRoot = pathFromRoot}

\* The relative path a folder key stands for, as the table stores it.
StoredRelPath(key) == IF key[3] = EmptyStr THEN EmptyStr ELSE key[3] \o <<Slash>>

\* C4: an AddImage for a file in directory D on a catalog without root folders
\* (and so without folders) leaves exactly one root folder, at D with a
\* trailing separator, and exactly one folder, at the empty path under that
\* root, which the new file references; the AddImage that follows it for a file
\* of the same directory adds no root folder and no folder, and the files of
\* the two images reference the same folder.
C4_FirstImage ==
    (lastCall'.op = "AddImage" /\ lastCall'.err = Ok /\ rootFolders = {} /\ folders = {}) =>
        \E r \in rootFolders' :
            /\ rootFolders' = {r}
            /\ r.absolutePath = WithTrailingSlash(lastCall'.dir)
            /\ \E f \in folders' :
                  /\ folders' = {f}
                  /\ f.rootFolder = r.id
                  /\ f.pathFromRoot = EmptyStr
                  /\ FileOfImage(files', images', lastCall'.id).folder = f.id
C4_NextImage ==
    (/\ lastCall.op = "AddImage" /\ lastCall.err = Ok /\ lastCall.empty
     /\ lastCall'.op = "AddImage" /\ lastCall'.err = Ok
     /\ lastCall'.dir = lastCall.dir /\ lastCall'.id # lastCall.id) =>
        /\ rootFolders' = rootFolders
        /\ folders' = folders
        /\ FileOfImage(files', images', lastCall'.id).folder =
               FileOfImage(files', images', lastCall.id).folder
C4_PathResolution == [][C4_FirstImage /\ C4_NextImage]_vars

\* C4 happens: two images were added for files of directory /a, the second by
\* the last call; there is one root folder, /a/, and one folder.
C4_Witness ==
    /\ lastCall.op = "AddImage" /\ lastCall.err = Ok /\ ~lastCall.empty
    /\ lastCall.dir = <<"/", "a">>
    /\ Cardinality(images) = 2 /\ Cardinality(files) = 2
    /\ \E r \in rootFolders :
          /\ rootFolders = {r}
          /\ r.absolutePath = <<"/", "a", "/">>
          /\ folders = FoldersAt(folders, r.id, EmptyStr)
          /\ Cardinality(folders) = 1
          /\ \A fl \in files : \E f \in folders : fl.folder = f.id

\* C5: no two folders of the same root folder have the same (normalized)
\* relative path.
C5_RelativePathUnique ==
    \A f, g \in folders :
        (/\ \E r \in rootFolders : r.id = f.rootFolder
         /\ f.rootFolder = g.rootFolder
         /\ f.pathFromRoot = g.pathFromRoot) => f = g

\* C6: every GetOrCreateFolder call succeeds and returns the folder the first
\* call for that root folder and path returned, the path being written with a
\* trailing separator or without; the folder is a row of that root folder and
\* normalized path; a call that finds no such row leaves exactly one, and a
\* call that finds one adds none.
C6_Step ==
    (lastCall'.op = "GetOrCreateFolder") =>
        LET key == lastCall'.key
            pathFromRoot == StoredRelPath(key)
        IN /\ lastCall'.err = Ok
           /\ \E e \in firstGot' : e.key = key /\ e.id = lastCall'.id
           /\ \E f \in FoldersAt(folders', key[2], pathFromRoot) : f.id = lastCall'.id
           /\ IF FoldersAt(folders, key[2], pathFromRoot) = {}
              THEN Cardinality(FoldersAt(folders', key[2], pathFromRoot)) = 1
              ELSE folders' = folders
C6_GetOrCreateFolderIdempotent == [][C6_Step]_vars

\* C6 happens: the folder b of root folder 1 was first asked for as "b", the
\* last call asked for it as "b/" and got the same folder, and it is the one
\* row of that root folder and path.
C6_Witness ==
    /\ lastCall.op = "GetOrCreateFolder"
    /\ lastCall.arg = <<"b", "/">>
    /\ \E r \in rootFolders : r.id = lastCall.key[2]
    /\ \E e \in firstGot : e.key = lastCall.key /\ e.arg = <<"b">> /\ e.id = lastCall.id
    /\ Cardinality(FoldersAt(folders, lastCall.key[2], <<"b", "/">>)) = 1

\* The keyword rows of a case-folded name.
KeywordsNamed(kws, lcName) == {k \in kws : k.lc_name = lcName}

\* C7: every successful GetOrCreateKeyword call returns the keyword the first
\* call for that name, case ignored, returned; the keyword is a row of that
\* case-folded name; a call that finds no such row leaves exactly one, a call
\* that finds one adds none, and a failed call adds none.
C7_Step ==
    (lastCall'.op = "GetOrCreateKeyword") =>
        LET lcName == lastCall'.key[2]
        IN IF lastCall'.err # Ok THEN keywords' = keywords
           ELSE /\ \E e \in firstGot' : e.key = lastCall'.key /\ e.id = lastCall'.id
                /\ \E k \in KeywordsNamed(keywords', lcName) : k.id = lastCall'.id
                /\ IF KeywordsNamed(keywords, lcName) = {}
                   THEN Cardinality(KeywordsNamed(keywords', lcName)) = 1
                   ELSE keywords' = keywords
C7_GetOrCreateKeywordIdempotent == [][C7_Step]_vars

\* C7 happens: the keyword was first asked for as "a", the last call asked for
\* it as "A" and got the same keyword, the one row of that case-folded name.
C7_Witness ==
    /\ lastCall.op = "GetOrCreateKeyword" /\ lastCall.err = Ok
    /\ lastCall.arg = <<"A">>
    /\ \E e \in firstGot : e.key = lastCall.key /\ e.arg = <<"a">> /\ e.id = lastCall.id
    /\ Cardinality(KeywordsNamed(keywords, <<"a">>)) = 1

\* The genealogy the contract gives a new entity: that of its parent in the
\* table, "/" and its own id, or its own id alone without a parent.
ContractGenealogy(table, entity) ==
    IF entity.parent.valid
    THEN {p.genealogy \o <<Slash>> \o FormatId(entity.id) :
             p \in {r \in table : r.id = entity.parent.v}}
    ELSE {FormatId(entity.id)}

\* C8: after a successful AddKeyword or AddCollection, the row of the new
\* entity holds the genealogy of its parent's row followed by "/" and its own
\* id, or its own id alone when no parent was given, and the value returned to
\* the caller is the stored one.
C8_GenealogyIsParentsPlusOwnId ==
    /\ (lastCall.op = "AddKeyword" /\ lastCall.err = Ok) =>
          \E row \in keywords :
              /\ row.id = lastCall.result.id
              /\ lastCall.result.parent = lastCall.parent
              /\ row.genealogy \in ContractGenealogy(keywords, lastCall.result)
              /\ lastCall.result.genealogy = row.genealogy
    /\ (lastCall.op = "AddCollection" /\ lastCall.err = Ok) =>
          \E row \in collections :
              /\ row.id = lastCall.result.id
              /\ lastCall.result.parent = lastCall.parent
              /\ row.genealogy \in ContractGenealogy(collections, lastCall.result)
              /\ lastCall.result.genealogy = row.genealogy

\* C8 happens: the last call added a keyword under a parent that has a parent
\* itself, and its genealogy is "1/2/3".
C8_Witness ==
    /\ lastCall.op = "AddKeyword" /\ lastCall.err = Ok
    /\ lastCall.parent = Some(2)
    /\ lastCall.result.genealogy = <<"1", "/", "2", "/", "3">>
    /\ \E row \in keywords : row.id = 3 /\ row.genealogy = <<"1", "/", "2", "/", "3">>

\* The parts of a keyword path, and whether none of them is blank.
PathParts(path) == Split(path, Slash)
NoBlankPart(path) == \A i \in 1..Len(PathParts(path)) : TrimSpace(PathParts(path)[i]) # EmptyStr

\* C9: CreateHierarchicalKeywords on a catalog without keywords, for a path of k
\* non-blank parts, succeeds, leaves exactly k keywords, returns the keyword of
\* the last part with the genealogy "1/2/.../k", and the keyword of each part
\* has the keyword of the part before it as its parent.
C9_HierarchyOfKParts ==
    (/\ lastCall.op = "CreateHierarchicalKeywords" /\ lastCall.empty
     /\ NoBlankPart(lastCall.path)) =>
        LET parts == PathParts(lastCall.path)
            k == Len(parts)
        IN /\ lastCall.err = Ok
           /\ lastCall.result.valid
           /\ Cardinality(keywords) = k
           /\ lastCall.result.v.id = k
           /\ lastCall.result.v.name = TrimSpace(parts[k])
           /\ lastCall.result.v.genealogy = Join([i \in 1..k |-> FormatId(i)], Slash)
           /\ \A i \in 1..k :
                 \E kw \in keywords :
                     /\ kw.id = i
                     /\ kw.name = TrimSpace(parts[i])
                     /\ kw.parent = IF i = 1 THEN Null ELSE Some(i - 1)

\* C10: an AddKeyword or AddCollection call whose parent id is the id of no row
\* returns the parent-not-found error and changes no table.
C10_Step ==
    /\ (/\ lastCall'.op = "AddKeyword" /\ lastCall'.parent.valid
        /\ ~\E k \in keywords : k.id = lastCall'.parent.v) =>
            /\ lastCall'.err = "parent keyword not found"
            /\ UNCHANGED <<keywords, kwImages, collections, collImages>>
    /\ (/\ lastCall'.op = "AddCollection" /\ lastCall'.parent.valid
        /\ ~\E c \in collections : c.id = lastCall'.parent.v) =>
            /\ lastCall'.err = "parent collection not found"
            /\ UNCHANGED <<keywords, kwImages, collections, collImages>>
C10_UnknownParentRejected == [][C10_Step]_vars

\* C10 happens: the last call was an AddCollection under an id that is the id
\* of no collection, in a catalog that has a collection; it failed, and the
\* catalog has that one collection still.
C10_Witness ==
    /\ lastCall.op = "AddCollection"
    /\ lastCall.parent = Some(2)
    /\ lastCall.err = "parent collection not found"
    /\ collections # {}
    /\ \A c \in collections : c.id = 1

\* C11: when the genealogy-stamping UPDATE of AddKeyword or AddCollection has
\* failed, the table holds no row of the new entity's id with the placeholder
\* genealogy (the parent's, or the empty text).
C11_NoPlaceholderRowLeft ==
    /\ (lastCall.op = "AddKeyword" /\ lastCall.err = "failed to update genealogy") =>
          ~\E row \in keywords :
              row.id = lastCall.newId /\ row.genealogy = lastCall.placeholder
    /\ (lastCall.op = "AddCollection" /\ lastCall.err = "failed to update genealogy") =>
          ~\E row \in collections :
              row.id = lastCall.newId /\ row.genealogy = lastCall.placeholder

\* C12: a call of AddImages that fails leaves every table as it was: no import
\* session, file, image, metadata or import-link row, no root folder and no
\* folder is added.
C12_Step ==
    (lastCall'.op = "AddImages" /\ lastCall'.err # Ok) =>
        UNCHANGED <<rootFolders, folders, files, images, metadata, imports, importImages>>
C13_RoundTrip ==
    /\ lastCall.op = "CompressXMP" => lastCall.err = Ok
    /\ (lastCall.op = "DecompressXMP" /\ lastCall.encoded) =>
          lastCall.err = Ok /\ lastCall.text = lastCall.xmp

\* A text of the greatest length came back from its blob.
C13_Witness ==
    /\ lastCall.op = "DecompressXMP" /\ lastCall.encoded
    /\ Len(lastCall.xmp) = MaxXmpLen
    /\ lastCall.text = lastCall.xmp

\* C14: DecompressXMP of a blob of 0, 1, 2 or 3 bytes returns the empty text and
\* no error, whatever the bytes.
C14_ShortBlobIsEmptyText ==
    (lastCall.op = "DecompressXMP" /\ Len(lastCall.data.bytes) < 4) =>
        lastCall.err = Ok /\ lastCall.text = <<>>

\* A blob of three bytes that begins like a zlib stream was decoded.
C14_Witness ==
    /\ lastCall.op = "DecompressXMP" /\ ~lastCall.encoded
    /\ Len(lastCall.data.bytes) = 3 /\ lastCall.data.bytes[1] = 120
    /\ lastCall.err = Ok

\* C15: after SetXMP(image, x) on an image that AddImage or AddImages created,
\* the call has succeeded and GetXMP(image) returns x and no error, for every
\* text x, the empty one included, whatever the blob was before.
C15_SetThenGet ==
    (lastCall.op = "SetXMP" /\ \E img \in images : img.id = lastCall.image) =>
        /\ lastCall.err = Ok
        /\ getXMP(metadata, lastCall.image) = [text |-> lastCall.xmp, err |-> Ok]

\* C16: GetImage of an image that AddImage created returns each of rating,
\* width, height and orientation absent exactly when the input left it absent,
\* and with the value of the input otherwise (0 is a value, not absence).
C16_OptionalFieldsReadBack ==
    (lastCall.op = "GetImage" /\ \E img \in images : img.id = lastCall.id) =>
        /\ lastCall.err = Ok
        /\ \A e \in firstGot :
              e.key = <<"image", lastCall.id>> =>
                 /\ lastCall.image.Rating = e.arg.Rating
                 /\ lastCall.image.Width = e.arg.Width
                 /\ lastCall.image.Height = e.arg.Height
                 /\ lastCall.image.Orientation = e.arg.Orientation

\* An image was read back with rating 0, width 0 and no height.
C16_Witness ==
    /\ lastCall.op = "GetImage" /\ lastCall.err = Ok
    /\ \E e \in firstGot :
          /\ e.key = <<"image", lastCall.id>>
          /\ e.arg.Rating = Some(0) /\ e.arg.Width = Some(0) /\ e.arg.Height = Null
    /\ lastCall.image.Rating = Some(0) /\ lastCall.image.Height = Null

\* C17: ImageExists(path) returns true exactly when an asset of that absolute
\* file path has been added.
C17_ExistsIffAdded ==
    lastCall.op = "ImageExists" =>
        (lastCall.exists <=>
            \E e \in firstGot :
                e.key[1] = "image" /\ normalizePath(e.arg.FilePath) = normalizePath(lastCall.path))

\* C18: DeleteCollection(c) removes the row of c and every membership row of c,
\* and leaves every image, file and metadata row, every other collection row and
\* every membership row of another collection as it was.
C18_Step ==
    lastCall'.op = "DeleteCollection" =>
        LET c == lastCall'.collection
        IN /\ ~\E row \in collections' : row.id = c
           /\ ~\E r \in collImages' : r.collection = c
           /\ collections' = {row \in collections : row.id # c}
           /\ collImages' = {r \in collImages : r.collection # c}
           /\ UNCHANGED <<images, files, metadata>>
C18_DeleteCollectionFrame == [][C18_Step]_vars

\* A collection with members was deleted, and another collection, its members
\* and the images are there.
C18_Witness ==
    /\ lastCall.op = "DeleteCollection" /\ lastCall.removed > 0
    /\ \E row \in collections : \E r \in collImages : r.collection = row.id
    /\ images # {} /\ metadata # {}

\* The root folders whose path is a prefix of the directory of the last AddImage.
PrefixRoots ==
    {r \in rootFolders : HasPrefix(WithTrailingSlash(lastCall.dir), r.absolutePath)}

C20_Step ==
    \A g \in Writers :
        (/\ calls[g].pc = "insert" /\ calls'[g].pc = "count"
         /\ \E r \in collImages :
               /\ r.collection = calls[g].collection
               /\ r.positionInCollection = calls[g].position)
        => calls[g].overtaken
C20_DuplicatePositionOnlyByInterleaving == [][C20_Step]_vars

\* Both calls have returned, and two rows of one collection, of different
\* images, have the same position.
C20_Witness ==
    /\ \A g \in Writers : calls[g].pc = "idle"
    /\ \E r1, r2 \in collImages :
          /\ r1.collection = r2.collection /\ r1.image # r2.image
          /\ r1.positionInCollection = r2.positionInCollection

\* The text holds a backslash.
HasBackslash(text) == \E i \in 1..Len(text) : text[i] = Backslash

\* C21 as stated: every stored root folder path ends with "/" and holds no
\* backslash, whatever path the caller gave.
C21_RootPathNormalized ==
    \A r \in rootFolders :
        HasSuffix(r.absolutePath, <<Slash>>) /\ ~HasBackslash(r.absolutePath)

\* C21 as amended: every stored root folder path ends with "/", and on a
\* Windows build it holds no backslash.
C21_RootPathNormalizedOnWindows ==
    \A r \in rootFolders :
        /\ HasSuffix(r.absolutePath, <<Slash>>)
        /\ goos = "windows" => ~HasBackslash(r.absolutePath)

\* On a Windows build, AddRootFolder and AddImage have each stored a root folder
\* of a path that was written with backslashes.
C21_Witness ==
    /\ goos = "windows"
    /\ lastCall.op = "AddImage" /\ lastCall.err = Ok
    /\ Cardinality(rootFolders) = 2
    /\ \E r \in rootFolders : r.id # lastCall.root

\* The stream of the blob given to the last call of DecompressXMP.
GivenStream == SubSeq(lastCall.data.bytes, HeaderLen + 1, Len(lastCall.data.bytes))

\* C22: what DecompressXMP returns for a blob of four bytes or more, text or
\* error, is what it returns for the same blob under any other header, whether
\* or not the header is the length of the text.
C22_HeaderIgnored ==
    (lastCall.op = "DecompressXMP" /\ Len(lastCall.data.bytes) >= HeaderLen) =>
        \A header \in HeaderInputs \cup {BigEndian32(Len(lastCall.xmp))} :
            DecompressXMP(Bytes(header \o GivenStream))
                = [text |-> lastCall.text, err |-> lastCall.err]

\* A text of two bytes or more was decoded from a blob whose header says 1.
C22_Witness ==
    /\ lastCall.op = "DecompressXMP" /\ lastCall.err = Ok
    /\ SubSeq(lastCall.data.bytes, 1, HeaderLen) = <<0, 0, 0, 1>>
    /\ Len(lastCall.text) >= 2

C24_SameDirectorySameFolder ==
    \A e1, e2 \in firstGot :
        (/\ e1.key[1] = "image" /\ e2.key[1] = "image"
         /\ Dir(normalizePath(e1.arg.FilePath)) = Dir(normalizePath(e2.arg.FilePath))) =>
            FileOfImage(files, images, e1.id).folder
                = FileOfImage(files, images, e2.id).folder

\* C25: every collection-membership row references a collection and an image
\* that exist, and every keyword-membership row a keyword and an image that
\* exist.
C25_MembershipsReferenceRows ==
    /\ \A r \in collImages :
          /\ \E c \in collections : c.id = r.collection
          /\ \E im \in images : im.id = r.image
    /\ \A r \in kwImages :
          /\ \E k \in keywords : k.id = r.tag
          /\ \E im \in images : im.id = r.image

\* C26: a GetOrCreateKeyword call that succeeds returns a keyword whose parent
\* is the parent the call asked for, also when a keyword of the same
\* case-folded name exists elsewhere in the tree.
C26_Step ==
    \A n \in KeywordNameInputs, p \in OptionalIdInputs(MaxKeywords) :
        (GetOrCreateKeyword(n, p) /\ lastCall'.err = Ok) =>
            \E kw \in keywords' : kw.id = lastCall'.id /\ kw.parent = p

C26_ReturnedKeywordHasRequestedParent == [][C26_Step]_vars

\* Whether every part of a keyword path is blank.
AllBlankParts(path) == \A i \in 1..Len(PathParts(path)) : TrimSpace(PathParts(path)[i]) = EmptyStr

\* C27: CreateHierarchicalKeywords with a path that has no non-blank part
\* returns the "empty keyword path" error and no keyword.
C27_BlankPathIsError ==
    (lastCall.op = "CreateHierarchicalKeywords" /\ AllBlankParts(lastCall.path)) =>
        /\ lastCall.err = "empty keyword path"
        /\ ~lastCall.result.valid

\* C28: the parent of every stored collection, when it has one, is a stored
\* collection, and every id in its genealogy is the id of a stored collection.
C28_CollectionAncestorsExist ==
    \A row \in collections :
        /\ row.parent.valid => \E c \in collections : c.id = row.parent.v
        /\ \A i \in 1..Len(Split(row.genealogy, Slash)) :
              \E c \in collections : FormatId(c.id) = Split(row.genealogy, Slash)[i]

\* C29: when several goroutines have run AddImageToCollection and
\* RemoveImageFromCollection on a collection at the same time, statement by
\* statement, and every call has returned, the stored imageCount of the
\* collection is the number of its membership rows (a collection no call has
\* returned for has no count and no row).
C29_CountSettlesWhenCallsReturn ==
    (\A g \in Writers : calls[g].pc = "idle") =>
        \A c \in collections :
            IF c.imageCount.valid
            THEN c.imageCount.v = Cardinality(CollectionRows(c.id))
            ELSE CollectionRows(c.id) = {}

\* C29 happens: every call has returned, the last to return was an
\* AddImageToCollection, and the pair it added has no row, a remove of another
\* goroutine having run between its INSERT and its count; the count is 0.
C29_Witness ==
    /\ \A g \in Writers : calls[g].pc = "idle"
    /\ lastCall.op = "AddImageToCollection" /\ lastCall.err = Ok
    /\ PairRows(lastCall.image, lastCall.collection) = {}
    /\ \E c \in collections : c.id = lastCall.collection /\ c.imageCount = Some(0)

\* C30: SetXMP for an image id that has no metadata row returns no error and
\* leaves every row and blob of every table as it was, and GetXMP for that id
\* returns an error afterwards.
C30_Step ==
    (lastCall'.op = "SetXMP" /\ ~\E row \in metadata : row.image = lastCall'.image) =>
        /\ lastCall'.err = Ok
        /\ UNCHANGED <<metadata, images, files, folders, rootFolders, imports, importImages>>
        /\ getXMP(metadata', lastCall'.image).err = "failed to get XMP"
C30_SetXmpWithoutRowIsSilent == [][C30_Step]_vars

\* C30 happens: the last call was a SetXMP of a text that is not empty, for an
\* id without a metadata row, in a catalog that has the metadata row of another
\* image, and it returned no error.
C30_Witness ==
    /\ lastCall.op = "SetXMP" /\ lastCall.err = Ok /\ lastCall.xmp # <<>>
    /\ ~\E row \in metadata : row.image = lastCall.image
    /\ metadata # {}

====
